---- MODULE Spec2Model ----
(***************************************************************************)
(* Network-Triage-Tool: the toolkit's two long-lived background            *)
(* operations, discovery capture (LLDP/CDP sniffing) and continuous ping,  *)
(* as they are started, stopped and run by                                 *)
(* NetworkTriageToolkitBase (src/src/network_triage/shared/                *)
(* shared_toolkit.py; src/network_toolkit.py is the same code) and driven  *)
(* by the desktop application (src/main_app.py).                           *)
(***************************************************************************)
EXTENDS Naturals, Integers, Sequences, FiniteSets, TLC

\* ------------------------------------------------------------------ bounds
\* Concurrent invocations of start_discovery_capture (caller threads).
NumCallers == 2
\* Capture Thread objects that may exist at one time.
MaxThreads == 2
\* Frames one capture session may hand to a decoder.
MaxFrames == 2
\* Ping worker threads that may exist at one time.
MaxPingThreads == 2
\* Output lines one ping process produces.
MaxLines == 2

Callers == 1..NumCallers
ThreadIds == 1..MaxThreads
PingIds == 1..MaxPingThreads
None == 0

VARIABLES
    stop_discovery,    \* self.stop_discovery
    discovery_thread,  \* self.discovery_thread: None or a Thread
    callers,           \* each start_discovery_capture invocation's position
    threads,           \* each capture Thread: state, packet_found, callback events
    is_root,           \* os.geteuid() == 0 (or Windows)
    stop_signaled,     \* history: live capture threads that stop_discovery_capture signalled
    stop_ping_event,   \* self.stop_ping_event
    ping_threads,      \* each continuous_ping thread
    ping_buttons,      \* ConnectivityTools: the state of start_button and stop_button
    ping_signaled,     \* history: running ping threads that stop_ping signalled
    lldp,              \* the LLDP branch of _packet_callback on one frame: its locals
    cdp,               \* the CDP branch of _packet_callback on one frame
    retry,             \* utils.retry: one call of the wrapper
    cache,             \* AsyncOperationMixin: _cache_enabled, _operation_cache
    widget,            \* BaseWidget: is_loading, current_status, error_message
    scanner,           \* PortScannerWidget: scan_in_progress and the scan_ports call
    parse,             \* PortScannerWidget.parse_ports_input: one call
    portcheck,         \* check_multiple_ports: one call
    dns,               \* the default socket timeout and the lookups that set it
    tui                \* terminal UI LLDPTool: scan_active, buttons, status, worker

capture_vars == <<stop_discovery, discovery_thread, callers, threads, is_root, stop_signaled>>
ping_vars == <<stop_ping_event, ping_threads, ping_buttons, ping_signaled>>
vars == <<stop_discovery, discovery_thread, callers, threads, is_root, stop_signaled,
          stop_ping_event, ping_threads, ping_buttons, ping_signaled, lldp,
          cdp, retry, cache, widget, scanner, parse, portcheck, dns, tui>>

\* ------------------------------------------------------------ variable groups
toolkit_vars == <<capture_vars, ping_vars, lldp>>

util_vars == <<cdp, retry, cache, widget, scanner, parse, portcheck, dns, tui>>

peers_cdp == <<retry, cache, widget, scanner, parse, portcheck, dns, tui>>

others_cdp == <<toolkit_vars, peers_cdp>>

peers_retry == <<cdp, cache, widget, scanner, parse, portcheck, dns, tui>>

others_retry == <<toolkit_vars, peers_retry>>

peers_cache == <<cdp, retry, widget, scanner, parse, portcheck, dns, tui>>

others_cache == <<toolkit_vars, peers_cache>>

peers_widget == <<cdp, retry, cache, scanner, parse, portcheck, dns, tui>>

others_widget == <<toolkit_vars, peers_widget>>

peers_scanner == <<cdp, retry, cache, widget, parse, portcheck, dns, tui>>

others_scanner == <<toolkit_vars, peers_scanner>>

peers_parse == <<cdp, retry, cache, widget, scanner, portcheck, dns, tui>>

others_parse == <<toolkit_vars, peers_parse>>

peers_portcheck == <<cdp, retry, cache, widget, scanner, parse, dns, tui>>

others_portcheck == <<toolkit_vars, peers_portcheck>>

peers_dns == <<cdp, retry, cache, widget, scanner, parse, portcheck, tui>>

others_dns == <<toolkit_vars, peers_dns>>

peers_tui == <<cdp, retry, cache, widget, scanner, parse, portcheck, dns>>

others_tui == <<toolkit_vars, peers_tui>>

\* ------------------------------------------------------------ frames
\* What a delivered packet is to _packet_callback: an LLDPDU whose TLV walk
\* yields both essential fields, an LLDPDU whose parse raises, a CDPMsg whose
\* fields decode, a CDPMsg whose decode raises, or a packet with neither layer.
FrameKinds == {"lldp_ok", "lldp_bad", "cdp_ok", "cdp_bad", "other"}

HasLLDP(f) == f \in {"lldp_ok", "lldp_bad"}

HasCDP(f) == f \in {"cdp_ok", "cdp_bad"}

\* The callback's result string, by kind: "--- LLDP/CDP Packet Found ---" or
\* "Error parsing LLDP/CDP packet: ...".
ParseResult(f) == IF f \in {"lldp_ok", "cdp_ok"} THEN "Match" ELSE "DecodeError"

\* A variant of the frame callback that neither latches packet_found nor asks
\* sniff to stop after a packet was handled.
PacketCallbackNoLatch(stop, found, f) ==
    IF stop \/ found
    THEN [ret |-> TRUE, found |-> found, emit |-> <<>>, decoded |-> 0]
    ELSE IF HasLLDP(f) \/ HasCDP(f)
    THEN [ret |-> FALSE, found |-> found, emit |-> <<ParseResult(f)>>, decoded |-> 1]
    ELSE [ret |-> FALSE, found |-> found, emit |-> <<>>, decoded |-> 0]

\* _packet_callback(packet): ret is the value handed to sniff's stop_filter,
\* found the new packet_found[0], emit what is passed to callback, decoded
\* whether the packet reached a decoder.
PacketCallback(stop, found, f) ==
    IF stop \/ found
    THEN [ret |-> TRUE, found |-> found, emit |-> <<>>, decoded |-> 0]
    ELSE IF HasLLDP(f)
    THEN [ret |-> TRUE, found |-> TRUE, emit |-> <<ParseResult(f)>>, decoded |-> 1]
    ELSE IF HasCDP(f)
    THEN [ret |-> TRUE, found |-> TRUE, emit |-> <<ParseResult(f)>>, decoded |-> 1]
    ELSE [ret |-> FALSE, found |-> found, emit |-> <<>>, decoded |-> 0]

\* ------------------------------------------------------------ helpers
\* Thread.is_alive(): started and not yet returned from its target.
IsAlive(t) == threads[t].st \in {"priv", "sniff", "finally", "return"}

AliveThreads == {t \in ThreadIds : IsAlive(t)}

\* Threads whose target has made its last callback and is returning. The
\* return shares nothing with the other threads, so it is taken at once.
Returning == {t \in ThreadIds : threads[t].st = "return"}

\* Thread slots holding no Thread object that is referenced or running.
Free == {t \in ThreadIds : threads[t].st = "none"}

Count(s, e) == Cardinality({i \in 1..Len(s) : s[i] = e})

\* A slot with no Thread in it; also what is left of a Thread that returned.
NoThread == [st |-> "none", found |-> FALSE, out |-> <<>>,
             decoded |-> 0, endedBy |-> "none"]

\* A Thread object just constructed, not yet started.
NewThread == [NoThread EXCEPT !.st = "created"]

NewCaller == [pc |-> "idle"]

\* ------------------------------------------------------------ start/stop
\* A thread enters start_discovery_capture(callback, timeout).
CallStart(c) ==
    /\ Returning = {}
    /\ callers[c].pc = "idle"
    /\ callers' = [callers EXCEPT ![c].pc = "check"]
    /\ UNCHANGED <<stop_discovery, discovery_thread, threads, is_root, stop_signaled>>
    /\ UNCHANGED <<ping_vars, lldp, util_vars>>

\* if self.discovery_thread and self.discovery_thread.is_alive()
ScanInProgress == discovery_thread # None /\ IsAlive(discovery_thread)

\* The guard: callback("A scan is already in progress.") -- or fall through.
CheckRunning(c) ==
    /\ Returning = {}
    /\ callers[c].pc = "check"
    /\ callers' = [callers EXCEPT ![c].pc = IF ScanInProgress THEN "rejected" ELSE "reset"]
    /\ UNCHANGED <<stop_discovery, discovery_thread, threads, is_root, stop_signaled>>
    /\ UNCHANGED <<ping_vars, lldp, util_vars>>

\* return, after the already-in-progress message was handed to the callback.
ReturnRejected(c) ==
    /\ Returning = {}
    /\ callers[c].pc = "rejected"
    /\ callers' = [callers EXCEPT ![c].pc = "idle"]
    /\ UNCHANGED <<stop_discovery, discovery_thread, threads, is_root, stop_signaled>>
    /\ UNCHANGED <<ping_vars, lldp, util_vars>>

\* A variant of the reset that leaves the flag as the last session left it.
ResetValueStale == stop_discovery

\* The value start_discovery_capture assigns to self.stop_discovery.
ResetValue == FALSE

\* self.stop_discovery = False
ResetStop(c) ==
    /\ Returning = {}
    /\ callers[c].pc = "reset"
    /\ stop_discovery' = ResetValue
    /\ callers' = [callers EXCEPT ![c].pc = "create"]
    /\ UNCHANGED <<discovery_thread, threads, is_root, stop_signaled>>
    /\ UNCHANGED <<ping_vars, lldp, util_vars>>

\* self.discovery_thread = threading.Thread(target=self._run_discovery_capture, ...)
\* A Thread that was stored but never started loses its only reference here.
CreateThread(c) ==
    /\ Returning = {}
    /\ callers[c].pc = "create"
    /\ LET old == discovery_thread
           dropped == IF old # None /\ threads[old].st = "created" THEN {old} ELSE {}
           slots == Free \cup dropped
       IN /\ slots # {}
          /\ LET t == CHOOSE u \in slots : \A v \in slots : u <= v
             IN /\ threads' = [u \in ThreadIds |->
                                 IF u = t THEN NewThread
                                 ELSE IF u \in dropped THEN NoThread
                                 ELSE threads[u]]
                /\ discovery_thread' = t
    /\ callers' = [callers EXCEPT ![c].pc = "launch"]
    /\ UNCHANGED <<stop_discovery, is_root, stop_signaled>>
    /\ UNCHANGED <<ping_vars, lldp, util_vars>>

\* self.discovery_thread.start(): reads the attribute again, so it starts
\* whichever Thread is stored there now; starting a Thread a second time
\* raises RuntimeError in the caller.
LaunchThread(c) ==
    /\ Returning = {}
    /\ callers[c].pc = "launch"
    /\ threads' = IF threads[discovery_thread].st = "created"
                  THEN [threads EXCEPT ![discovery_thread].st = "priv"]
                  ELSE threads
    /\ callers' = [callers EXCEPT ![c] = NewCaller]
    /\ UNCHANGED <<stop_discovery, discovery_thread, is_root, stop_signaled>>
    /\ UNCHANGED <<ping_vars, lldp, util_vars>>

\* stop_discovery_capture(): self.stop_discovery = True
SetStop ==
    /\ Returning = {}
    /\ stop_discovery' = TRUE
    /\ UNCHANGED <<discovery_thread, callers, threads, is_root>>
    /\ UNCHANGED <<ping_vars, lldp, util_vars>>

\* stop_discovery_capture() with no history kept.
StopDiscoveryCapture ==
    /\ SetStop
    /\ UNCHANGED stop_signaled

\* stop_discovery_capture(), remembering which live workers it signalled.
StopDiscoveryCaptureRecorded ==
    /\ SetStop
    /\ stop_signaled' = stop_signaled \cup AliveThreads

\* ------------------------------------------------------------ the worker
\* A variant of the privilege test that reports the failure and goes on to
\* capture all the same.
CheckPrivilegeFallsThrough(t) ==
    /\ Returning = {}
    /\ threads[t].st = "priv"
    /\ threads' = [threads EXCEPT ![t].st = "sniff",
                                  ![t].out = IF is_root THEN @ ELSE Append(@, "PermissionDenied")]
    /\ UNCHANGED <<stop_discovery, discovery_thread, callers, is_root, stop_signaled>>
    /\ UNCHANGED <<ping_vars, lldp, util_vars>>

\* _run_discovery_capture: the privilege test before any capture.
CheckPrivilege(t) ==
    /\ Returning = {}
    /\ threads[t].st = "priv"
    /\ IF is_root
       THEN threads' = [threads EXCEPT ![t].st = "sniff"]
       ELSE threads' = [threads EXCEPT ![t].st = "return",
                                       ![t].out = Append(@, "PermissionDenied"),
                                       ![t].endedBy = "denied"]
    /\ UNCHANGED <<stop_discovery, discovery_thread, callers, is_root, stop_signaled>>
    /\ UNCHANGED <<ping_vars, lldp, util_vars>>

\* Why sniff stopped after the callback returned True.
EndCause(stop, r) ==
    IF stop THEN "stop"
    ELSE IF r.emit = <<"Match">> THEN "match"
    ELSE IF r.emit = <<"DecodeError">> THEN "decode_error"
    ELSE "found"

\* sniff delivers one packet to stop_filter=_packet_callback and stops when
\* the callback returns True.
DeliverFrame(t, f) ==
    /\ Returning = {}
    /\ threads[t].st = "sniff"
    /\ threads[t].decoded < MaxFrames
    /\ LET r == PacketCallback(stop_discovery, threads[t].found, f)
       IN threads' = [threads EXCEPT
             ![t].found = r.found,
             ![t].out = @ \o r.emit,
             ![t].decoded = @ + r.decoded,
             ![t].st = IF r.ret THEN "finally" ELSE "sniff",
             ![t].endedBy = IF r.ret THEN EndCause(stop_discovery, r) ELSE @]
    /\ UNCHANGED <<stop_discovery, discovery_thread, callers, is_root, stop_signaled>>
    /\ UNCHANGED <<ping_vars, lldp, util_vars>>

\* sniff returns because timeout seconds have passed.
SniffTimeout(t) ==
    /\ Returning = {}
    /\ threads[t].st = "sniff"
    /\ threads' = [threads EXCEPT ![t].st = "finally",
                                  ![t].endedBy = "timeout"]
    /\ UNCHANGED <<stop_discovery, discovery_thread, callers, is_root, stop_signaled>>
    /\ UNCHANGED <<ping_vars, lldp, util_vars>>

\* sniff raises; except Exception: callback("An error occurred during packet capture")
SniffRaises(t) ==
    /\ Returning = {}
    /\ threads[t].st = "sniff"
    /\ threads' = [threads EXCEPT ![t].st = "finally",
                                  ![t].out = Append(@, "CaptureError"),
                                  ![t].endedBy = "error"]
    /\ UNCHANGED <<stop_discovery, discovery_thread, callers, is_root, stop_signaled>>
    /\ UNCHANGED <<ping_vars, lldp, util_vars>>

\* finally: if not packet_found[0] and not self.stop_discovery: callback("Scan complete. No ... found")
Finally(t) ==
    /\ Returning = {}
    /\ threads[t].st = "finally"
    /\ threads' = [threads EXCEPT
          ![t].st = "return",
          ![t].out = IF ~threads[t].found /\ ~stop_discovery
                     THEN Append(@, "NotFound") ELSE @]
    /\ UNCHANGED <<stop_discovery, discovery_thread, callers, is_root, stop_signaled>>
    /\ UNCHANGED <<ping_vars, lldp, util_vars>>

\* _run_discovery_capture returns: the thread ends, is_alive() turns False and
\* the session's locals (packet_found, the callback closure) are dropped.
ThreadReturn(t) ==
    /\ threads[t].st = "return"
    /\ threads' = [threads EXCEPT ![t] = NoThread]
    /\ stop_signaled' = stop_signaled \ {t}
    /\ UNCHANGED <<stop_discovery, discovery_thread, callers, is_root>>
    /\ UNCHANGED <<ping_vars, lldp, util_vars>>

\* ------------------------------------------------------------ continuous ping
\* A slot with no ping thread in it; also what is left of one that returned.
NoPing == [st |-> "none", sink |-> <<>>, nread |-> 0]

\* What a ping thread hands to its callback: the n-th line the ping process
\* printed, or one of the two failure messages (n is 0 for those).
PingEvent(ev, n) == [ev |-> ev, n |-> n]

\* The probe lines among the events a callback received, as line numbers.
SinkLines(s) == [i \in 1..Len(SelectSeq(s, LAMBDA e : e.ev = "line")) |->
                   SelectSeq(s, LAMBDA e : e.ev = "line")[i].n]

PingAlive(p) == ping_threads[p].st \in {"clear", "popen", "read", "check", "return"}

AlivePings == {p \in PingIds : PingAlive(p)}

\* Ping threads inside continuous_ping's body, past their own clear().
Pinging == {p \in PingIds : ping_threads[p].st \in {"popen", "read", "check"}}

FreePings == {p \in PingIds : ping_threads[p].st = "none"}

\* The text of the host entry when Start Ping is pressed.
Hosts == {"", "8.8.8.8"}

\* ConnectivityTools.start_ping, run by the Start Ping button (enabled only
\* while start_button is "normal"): starts a thread on continuous_ping.
StartPing(host) ==
    /\ ping_buttons.start = "normal"
    /\ IF host = ""
       THEN UNCHANGED <<ping_threads, ping_buttons>>
       ELSE /\ FreePings # {}
            /\ LET p == CHOOSE u \in FreePings : \A v \in FreePings : u <= v
               IN ping_threads' = [ping_threads EXCEPT ![p].st = "clear"]
            /\ ping_buttons' = [start |-> "disabled", stop |-> "normal"]
    /\ UNCHANGED <<stop_ping_event, ping_signaled>>
    /\ UNCHANGED <<capture_vars, lldp, util_vars>>

\* ConnectivityTools.stop_ping, run by the Stop Ping button (enabled only
\* while stop_button is "normal"): net_tool.stop_ping() sets the event.
StopPing ==
    /\ ping_buttons.stop = "normal"
    /\ stop_ping_event' = TRUE
    /\ ping_buttons' = [start |-> "normal", stop |-> "disabled"]
    /\ ping_signaled' = ping_signaled \cup Pinging
    /\ UNCHANGED ping_threads
    /\ UNCHANGED <<capture_vars, lldp, util_vars>>

\* A variant of stop_ping in which the two tools share one stop flag.
StopPingSharedFlag ==
    /\ ping_buttons.stop = "normal"
    /\ stop_ping_event' = TRUE
    /\ stop_discovery' = TRUE
    /\ ping_buttons' = [start |-> "normal", stop |-> "disabled"]
    /\ UNCHANGED <<ping_threads, ping_signaled>>
    /\ UNCHANGED <<discovery_thread, callers, threads, is_root, stop_signaled, lldp, util_vars>>

\* ConnectivityTools.stop_ping with no history kept.
StopPingUnrecorded ==
    /\ ping_buttons.stop = "normal"
    /\ stop_ping_event' = TRUE
    /\ ping_buttons' = [start |-> "normal", stop |-> "disabled"]
    /\ UNCHANGED <<ping_threads, ping_signaled>>
    /\ UNCHANGED <<capture_vars, lldp, util_vars>>

\* continuous_ping: self.stop_ping_event.clear()
PingClear(p) ==
    /\ ping_threads[p].st = "clear"
    /\ stop_ping_event' = FALSE
    /\ ping_threads' = [ping_threads EXCEPT ![p].st = "popen"]
    /\ UNCHANGED <<ping_buttons, ping_signaled>>
    /\ UNCHANGED <<capture_vars, lldp, util_vars>>

\* What subprocess.Popen(["ping", host]) does.
PopenOutcomes == {"ok", "FileNotFoundError", "Exception"}

\* subprocess.Popen(...) and the two except clauses around the loop.
PingPopen(p, outcome) ==
    /\ ping_threads[p].st = "popen"
    /\ ping_threads' = [ping_threads EXCEPT
          ![p].st = IF outcome = "ok" THEN "read" ELSE "return",
          ![p].sink = IF outcome = "ok" THEN @
                      ELSE IF outcome = "FileNotFoundError" THEN Append(@, PingEvent("PingNotFound", 0))
                      ELSE Append(@, PingEvent("PingError", 0))]
    /\ UNCHANGED <<stop_ping_event, ping_buttons, ping_signaled>>
    /\ UNCHANGED <<capture_vars, lldp, util_vars>>

\* process.stdout.readline(): the next line of the ping process, or "" at
\* end of output, which ends the loop.
PingReadline(p, eof) ==
    /\ ping_threads[p].st = "read"
    /\ IF eof
       THEN ping_threads' = [ping_threads EXCEPT ![p].st = "return"]
       ELSE /\ ping_threads[p].nread < MaxLines
            /\ ping_threads' = [ping_threads EXCEPT ![p].st = "check", ![p].nread = @ + 1]
    /\ UNCHANGED <<stop_ping_event, ping_buttons, ping_signaled>>
    /\ UNCHANGED <<capture_vars, lldp, util_vars>>

\* A variant of the loop body that tests the event and hands nothing to the
\* callback.
PingCheckKeepsLine(p) ==
    /\ ping_threads[p].st = "check"
    /\ ping_threads' = [ping_threads EXCEPT ![p].st = IF stop_ping_event THEN "return" ELSE "read"]
    /\ UNCHANGED <<stop_ping_event, ping_buttons, ping_signaled>>
    /\ UNCHANGED <<capture_vars, lldp, util_vars>>

\* if self.stop_ping_event.is_set(): process.terminate(); break -- else callback(line)
PingCheck(p) ==
    /\ ping_threads[p].st = "check"
    /\ IF stop_ping_event
       THEN ping_threads' = [ping_threads EXCEPT ![p].st = "return"]
       ELSE ping_threads' = [ping_threads EXCEPT ![p].st = "read",
                                                 ![p].sink = Append(@, PingEvent("line", ping_threads[p].nread))]
    /\ UNCHANGED <<stop_ping_event, ping_buttons, ping_signaled>>
    /\ UNCHANGED <<capture_vars, lldp, util_vars>>

\* continuous_ping returns and its thread ends.
PingReturn(p) ==
    /\ ping_threads[p].st = "return"
    /\ ping_threads' = [ping_threads EXCEPT ![p] = NoPing]
    /\ ping_signaled' = ping_signaled \ {p}
    /\ UNCHANGED <<stop_ping_event, ping_buttons>>
    /\ UNCHANGED <<capture_vars, lldp, util_vars>>

\* ------------------------------------------------------------ LLDP TLV walk
\* TLVs one LLDP payload is built from.
MaxTLVs == 3
\* Bytes that may be missing from the end of a payload.
MaxCut == 2

Min(a, b) == IF a <= b THEN a ELSE b

Max(a, b) == IF a >= b THEN a ELSE b

\* Python's s[a:b] on bytes, offsets from 0, clamped to the length of s.
Slice(s, a, b) == SubSeq(s, Min(a, Len(s)) + 1, Min(b, Len(s)))

\* One TLV on the wire: a 16-bit big-endian header, type in the top 7 bits
\* and length in the low 9, then the value.
EncodeTLV(tlv) ==
    LET header == tlv.type * 512 + Len(tlv.value)
    IN <<header \div 256, header % 256>> \o tlv.value

RECURSIVE EncodeTLVs(_)
EncodeTLVs(tlvs) ==
    IF tlvs = <<>> THEN <<>> ELSE EncodeTLV(Head(tlvs)) \o EncodeTLVs(Tail(tlvs))

\* A local that is None, or holds v.
Unset == <<>>

Some(v) == <<v>>

\* Python truth of such a local: not None and not empty.
Truthy(x) == x # Unset /\ x[1] # <<>>

\* socket.inet_ntoa: the dotted quad of exactly four octets; anything else
\* raises.
InetNtoaRaises(b) == Len(b) # 4

InetNtoa(b) == <<"ip", b[1], b[2], b[3], b[4]>>

\* bytes.decode("utf-8", "ignore") on bytes none of which is a continuation
\* byte (0x80..0xBF): ASCII is kept, every other byte is dropped.
Utf8Ignore(b) == SelectSeq(b, LAMBDA x : x < 128)

\* The locals of the LLDP branch as the walk begins on raw_payload.
StartWalk(raw_payload) ==
    [raw_payload |-> raw_payload, i |-> 0,
     chassis_id_val |-> Unset, port_id_val |-> Unset, port_description_val |-> Unset,
     system_name_val |-> Unset, mgmt_address_val |-> Unset,
     pc |-> "loop", top |-> 0, result |-> [kind |-> "none"]]

\* A variant of the length guard that lets every declared length through.
ValueFitsAlways(s, tlv_len) == TRUE

\* The negation of: if i + 2 + tlv_len > len(raw_payload): break
ValueFits(s, tlv_len) == s.i + 2 + tlv_len <= Len(s.raw_payload)

\* A variant of the management-address test that takes every address family.
IsIPv4MgmtAnyFamily(tlv_type, value_bytes) == tlv_type = 8 /\ Len(value_bytes) > 1

\* tlv_type == 8 and len(value_bytes) > 1 and value_bytes[1] == 1
IsIPv4Mgmt(tlv_type, value_bytes) ==
    tlv_type = 8 /\ Len(value_bytes) > 1 /\ value_bytes[2] = 1

\* The if/elif chain on tlv_type followed by i += 2 + tlv_len; type 0 breaks
\* out of the loop before the increment, a raising inet_ntoa lands in the
\* except clause.
Dispatch(s, tlv_type, tlv_len, value_bytes) ==
    LET next == [s EXCEPT !.i = @ + 2 + tlv_len, !.top = Max(@, s.i + 2 + tlv_len)]
    IN IF tlv_type = 1
       THEN [next EXCEPT !.chassis_id_val = Some(Slice(value_bytes, 1, Len(value_bytes)))]
       ELSE IF tlv_type = 2
       THEN [next EXCEPT !.port_id_val = Some(Slice(value_bytes, 1, Len(value_bytes)))]
       ELSE IF tlv_type = 4
       THEN [next EXCEPT !.port_description_val = Some(value_bytes)]
       ELSE IF tlv_type = 5
       THEN [next EXCEPT !.system_name_val = Some(value_bytes)]
       ELSE IF IsIPv4Mgmt(tlv_type, value_bytes)
       THEN IF InetNtoaRaises(Slice(value_bytes, 2, 6))
            THEN [next EXCEPT !.i = s.i, !.pc = "done",
                              !.result = [kind |-> "DecodeError", err |-> "BadAddress"]]
            ELSE [next EXCEPT !.mgmt_address_val = Some(InetNtoa(Slice(value_bytes, 2, 6)))]
       ELSE IF tlv_type = 0
       THEN [next EXCEPT !.i = s.i, !.pc = "after"]
       ELSE next

\* One pass through the body of: while i < len(raw_payload)
WalkTLV(s) ==
    IF ~(s.i < Len(s.raw_payload)) \/ s.i + 2 > Len(s.raw_payload)
    THEN [s EXCEPT !.pc = "after"]
    ELSE LET tlv_header == s.raw_payload[s.i + 1] * 256 + s.raw_payload[s.i + 2]
             tlv_type == tlv_header \div 512
             tlv_len == tlv_header % 512
             read == [s EXCEPT !.top = Max(@, s.i + 2)]
         IN IF ~ValueFits(s, tlv_len)
            THEN [read EXCEPT !.pc = "after"]
            ELSE Dispatch(read, tlv_type, tlv_len,
                          Slice(s.raw_payload, s.i + 2, s.i + 2 + tlv_len))

\* A variant of the essential-fields test that asks for the chassis id only.
EssentialMissingChassisOnly(s) == ~Truthy(s.chassis_id_val)

\* if not chassis_id_val or not port_id_val
EssentialMissing(s) == ~Truthy(s.chassis_id_val) \/ ~Truthy(s.port_id_val)

\* A field of the result text that is printed only when its local is truthy.
Printed(x) == IF Truthy(x) THEN Some(Utf8Ignore(x[1])) ELSE Unset

\* After the loop: raise ValueError("Essential LLDP fields not found."), or
\* build the "--- LLDP Packet Found ---" text from the locals.
BuildResult(s) ==
    IF EssentialMissing(s)
    THEN [s EXCEPT !.pc = "done", !.result = [kind |-> "DecodeError", err |-> "MissingField"]]
    ELSE [s EXCEPT !.pc = "done",
                   !.result = [kind |-> "Match",
                               system_name |-> Printed(s.system_name_val),
                               switch_id |-> Utf8Ignore(s.chassis_id_val[1]),
                               mgmt_address |-> s.mgmt_address_val,
                               port_description |-> Printed(s.port_description_val)]]

\* The whole LLDP branch on one payload, from the state s of its locals.
RECURSIVE RunWalk(_)
RunWalk(s) ==
    IF s.pc = "done" THEN s
    ELSE IF s.pc = "after" THEN RunWalk(BuildResult(s))
    ELSE RunWalk(WalkTLV(s))

\* What the LLDP branch hands to callback for raw_payload.
DecodeLLDP(raw_payload) == RunWalk(StartWalk(raw_payload)).result

\* TLVs a neighbor may send: End, Chassis ID (subtype 4, ids "A", "B", the
\* empty id and one non-ASCII byte), Port ID (subtype 5, ids "P" and "Q"),
\* Time To Live, Port Description, System Name, and Management Address with
\* an IPv4 address, with family 2, and with an IPv4 address cut to two octets.
TLVChoices ==
    {[type |-> 0, value |-> <<>>],
     [type |-> 1, value |-> <<4, 65>>], [type |-> 1, value |-> <<4, 66>>],
     [type |-> 1, value |-> <<4>>], [type |-> 1, value |-> <<4, 200>>],
     [type |-> 2, value |-> <<5, 80>>], [type |-> 2, value |-> <<5, 81>>],
     [type |-> 3, value |-> <<0, 120>>],
     [type |-> 4, value |-> <<68>>], [type |-> 5, value |-> <<83>>],
     [type |-> 8, value |-> <<5, 1, 10, 0, 0, 1>>],
     [type |-> 8, value |-> <<5, 2, 10, 0, 0, 1>>],
     [type |-> 8, value |-> <<3, 1, 10, 0>>]}

TLVLists == UNION {[1..n -> TLVChoices] : n \in 0..MaxTLVs}

\* bytes(packet[LLDPDU].payload) for a frame that carries tlvs and lost its
\* last cut bytes.
Payload(tlvs, cut) ==
    Slice(EncodeTLVs(tlvs), 0, Len(EncodeTLVs(tlvs)) - Min(cut, Len(EncodeTLVs(tlvs))))

\* No frame is being decoded.
NoFrame == [tlvs |-> <<>>, cut |-> 0, s |-> [StartWalk(<<>>) EXCEPT !.pc = "idle"]]

\* while i < len(raw_payload): one pass of the loop.
StepWalk ==
    /\ lldp.s.pc = "loop"
    /\ lldp' = [lldp EXCEPT !.s = WalkTLV(@)]
    /\ UNCHANGED <<capture_vars, ping_vars, util_vars>>

\* The statements after the loop, up to callback(result).
FinishWalk ==
    /\ lldp.s.pc = "after"
    /\ lldp' = [lldp EXCEPT !.s = BuildResult(@)]
    /\ UNCHANGED <<capture_vars, ping_vars, util_vars>>

\* ------------------------------------------------------------ CDP branch
\* The CDP branch of _packet_callback reads three attributes of packet[CDPMsg]
\* and its addr list.  A frame is what the wire carried: each of Device ID,
\* Port ID and Platform is Unset or Some(bytes), addr is Unset or Some(list of
\* address records).
MaxAddrRecords == 2

\* Field bytes: "SW", "Gi" and a lone 0xC8, which is not UTF-8.
CdpBytes == {<<83, 87>>, <<71, 105>>, <<200>>}

CdpField == {Unset} \cup {Some(b) : b \in CdpBytes}

\* The records of the addr list: CDPAddrRecord instances and one other record.
AddrRecords ==
    {[kind |-> "CDPAddrRecord", addr |-> "192.0.2.1"],
     [kind |-> "CDPAddrRecord", addr |-> "192.0.2.2"],
     [kind |-> "other", addr |-> "2001:db8::1"]}

AddrLists == UNION {[1..n -> AddrRecords] : n \in 0..MaxAddrRecords}

CdpFrames ==
    [device_id : CdpField, port_id : CdpField, platform : CdpField,
     addr : {Unset} \cup {Some(l) : l \in AddrLists}]

\* What reading an attribute the frame does not carry does is the capture
\* library's, not this program's: it raises (or yields None, on which
\* .decode() raises), or it yields an empty value.
AbsentOutcomes == {"raises", "empty"}

\* bytes.decode(): strict UTF-8, a str of the same bytes or UnicodeDecodeError.
DecodeRaises(b) == \E k \in 1..Len(b) : b[k] >= 128

Str(b) == <<"str", b>>

\* packet[CDPMsg].<field>.decode() raises
FieldRaises(v, absent) ==
    IF v = Unset THEN absent = "raises" ELSE DecodeRaises(v[1])

\* ... and otherwise is this str
FieldText(v) == IF v = Unset THEN Str(<<>>) ELSE Str(v[1])

\* next((addr.addr for addr in ... if isinstance(addr, CDPAddrRecord)), "N-A")
RECURSIVE FirstAddrRecord(_)
FirstAddrRecord(l) ==
    IF l = <<>> THEN "N-A"
    ELSE IF Head(l).kind = "CDPAddrRecord" THEN Head(l).addr
    ELSE FirstAddrRecord(Tail(l))

MgmtAddress(a) == IF a = Unset THEN "N-A" ELSE FirstAddrRecord(a[1])

\* The try block raises when any of its four reads does.
CdpRaises(frame, absent) ==
    \/ FieldRaises(frame.device_id, absent)
    \/ FieldRaises(frame.port_id, absent)
    \/ FieldRaises(frame.platform, absent)
    \/ (frame.addr = Unset /\ absent = "raises")

CdpFound == "--- CDP Packet Found ---"

CdpError == "Error parsing CDP packet"

\* The result string handed to callback, by its parts.
CdpResult(frame, absent) ==
    IF CdpRaises(frame, absent)
    THEN [tag |-> CdpError, device_id |-> Str(<<>>), mgmt_address |-> "",
          port_id |-> Str(<<>>), platform |-> Str(<<>>)]
    ELSE [tag |-> CdpFound,
          device_id |-> FieldText(frame.device_id),
          mgmt_address |-> MgmtAddress(frame.addr),
          port_id |-> FieldText(frame.port_id),
          platform |-> FieldText(frame.platform)]

NoCdpResult ==
    [tag |-> "", device_id |-> Str(<<>>), mgmt_address |-> "",
     port_id |-> Str(<<>>), platform |-> Str(<<>>)]

NoCdpFrame == [device_id |-> Unset, port_id |-> Unset, platform |-> Unset, addr |-> Unset]

NoCdp == [pc |-> "none", frame |-> NoCdpFrame, absent |-> "raises", result |-> NoCdpResult]

\* _packet_callback on a frame with a CDPMsg layer: decode and callback(result).
CdpCallback ==
    /\ cdp.pc = "captured"
    /\ cdp' = [cdp EXCEPT !.pc = "delivered",
                          !.result = CdpResult(cdp.frame, cdp.absent)]
    /\ UNCHANGED others_cdp

\* ------------------------------------------------------------ retry
\* utils.retry(max_attempts, delay, backoff, exceptions)(func): the wrapper's
\* locals, the outcome of each invocation of func so far (log) and the delays
\* slept (sleeps).
MaxAttempts == 3

ExcTypes == {"ValueError", "TypeError"}

NoException == [type |-> "None", call |-> 0]

\* The exception object raised by invocation number k.
Exc(ty, k) == [type |-> ty, call |-> k]

NoRetry ==
    [max_attempts |-> 0, delay |-> 0, backoff |-> 1, exceptions |-> {},
     attempt |-> 0, current_delay |-> 0, last_exception |-> NoException,
     log |-> <<>>, sleeps |-> <<>>, pc |-> "none",
     result |-> [kind |-> "none", type |-> "", call |-> 0]]

\* wrapper(*args) is entered: current_delay = delay, last_exception = None and
\* the for loop is at its first attempt.
EnterWrapper(n, d, b, e) ==
    [NoRetry EXCEPT !.max_attempts = n, !.delay = d, !.backoff = b,
                    !.exceptions = e, !.attempt = 1, !.current_delay = d,
                    !.pc = "loop"]

\* A variant of the loop bound that runs one attempt more.
InRangeOneMore(r) == r.attempt <= r.max_attempts + 1

\* for attempt in range(1, max_attempts + 1)
InRange(r) == r.attempt <= r.max_attempts

\* A variant of the except clause that catches everything.
CatchesAll(r, ty) == TRUE

\* except exceptions as e
Catches(r, ty) == ty \in r.exceptions

\* return func(*args, **kwargs), func returning
RetryReturns ==
    /\ retry.pc = "loop"
    /\ InRange(retry)
    /\ retry' = [retry EXCEPT !.log = Append(@, "returns"),
                              !.pc = "returned",
                              !.result = [kind |-> "return", type |-> "",
                                          call |-> Len(retry.log) + 1]]
    /\ UNCHANGED others_retry

\* func raises an exception the except clause catches: remember it, sleep and
\* back off unless this was the last attempt, and go round the loop.
RetryCaught ==
    /\ retry.pc = "loop"
    /\ InRange(retry)
    /\ \E ty \in ExcTypes :
        /\ Catches(retry, ty)
        /\ retry' =
            [retry EXCEPT
                !.log = Append(@, ty),
                !.last_exception = Exc(ty, Len(retry.log) + 1),
                !.sleeps = IF retry.attempt < retry.max_attempts
                           THEN Append(@, retry.current_delay) ELSE @,
                !.current_delay = IF retry.attempt < retry.max_attempts
                                  THEN @ * retry.backoff ELSE @,
                !.attempt = @ + 1]
    /\ UNCHANGED others_retry

\* func raises an exception the except clause does not catch: it leaves the
\* wrapper.
RetryPropagates ==
    /\ retry.pc = "loop"
    /\ InRange(retry)
    /\ \E ty \in ExcTypes :
        /\ ~Catches(retry, ty)
        /\ retry' = [retry EXCEPT !.log = Append(@, ty),
                                  !.pc = "raised",
                                  !.result = [kind |-> "raise", type |-> ty,
                                              call |-> Len(retry.log) + 1]]
    /\ UNCHANGED others_retry

\* raise last_exception, after the loop; raising None is a TypeError of the
\* interpreter's.
RetryExhausted ==
    /\ retry.pc = "loop"
    /\ ~InRange(retry)
    /\ retry' = [retry EXCEPT
                    !.pc = "raised",
                    !.result = IF retry.last_exception = NoException
                               THEN [kind |-> "raise", type |-> "TypeError", call |-> 0]
                               ELSE [kind |-> "raise",
                                     type |-> retry.last_exception.type,
                                     call |-> retry.last_exception.call]]
    /\ UNCHANGED others_retry

\* ------------------------------------------------------------ result cache
\* AsyncOperationMixin: _cache_enabled and _operation_cache (a dict, here a
\* function from every key to Unset or Some(value)).  recorded is history: per
\* key, the value of the latest cache_result made while caching was enabled and
\* not since followed by clear_cache of that key or of everything.
CacheKeys == {"", "key1", "key2"}

CacheValues == {"value1", "value2"}

NewCache ==
    [enabled |-> TRUE,
     store |-> [k \in CacheKeys |-> Unset],
     recorded |-> [k \in CacheKeys |-> Unset],
     returned |-> [key |-> "", value |-> Unset]]

\* get_cached(key): the entry, or None (Unset)
GetCachedValue(c, key) ==
    IF c.enabled /\ c.store[key] # Unset THEN c.store[key] ELSE Unset

\* `if key:` on the Optional[str] argument of clear_cache
KeyIsTruthy(key) == key # Unset /\ key[1] # ""

EnableCache(enabled) ==
    /\ cache' = [cache EXCEPT !.enabled = enabled]
    /\ UNCHANGED others_cache

GetCached(key) ==
    /\ cache' = [cache EXCEPT !.returned = [key |-> key,
                                            value |-> GetCachedValue(cache, key)]]
    /\ UNCHANGED others_cache

CacheResult(key, result) ==
    /\ cache' = IF cache.enabled
                THEN [cache EXCEPT !.store[key] = Some(result),
                                   !.recorded[key] = Some(result)]
                ELSE cache
    /\ UNCHANGED others_cache

\* clear_cache(key), key being Some(k), or Unset for clear_cache()
ClearCache(key) ==
    /\ cache' =
        [cache EXCEPT
            !.store = IF KeyIsTruthy(key)
                      THEN [@ EXCEPT ![key[1]] = Unset]
                      ELSE [k \in CacheKeys |-> Unset],
            !.recorded = IF key # Unset
                         THEN [@ EXCEPT ![key[1]] = Unset]
                         ELSE [k \in CacheKeys |-> Unset]]
    /\ UNCHANGED others_cache

\* ------------------------------------------------------------ BaseWidget
\* The reactive attributes of a BaseWidget and its #error-display Static.
\* query_one raises when the widget has no app context, after the attributes
\* were assigned.
Messages == {"", "Test error message", "Timeout", "Operation complete"}

Statuses == {"Processing...", "Running operation", "Scanning..."}

NewWidget ==
    [is_loading |-> FALSE, current_status |-> "Ready", error_message |-> "",
     error_display |-> [text |-> "", display |-> ""]]

QueryOneOutcomes == {"found", "raises"}

\* A variant of show_loading that leaves error_message as it is.
ShowLoadingKeepsError(w, message) ==
    [w EXCEPT !.is_loading = TRUE, !.current_status = message]

\* the three assignments of show_loading
ShowLoadingState(w, message) ==
    [w EXCEPT !.is_loading = TRUE, !.current_status = message, !.error_message = ""]

DisplayError(message) ==
    /\ \E q \in QueryOneOutcomes :
        widget' = [widget EXCEPT
            !.error_message = message,
            !.is_loading = FALSE,
            !.current_status = "Error",
            !.error_display = IF q = "found"
                              THEN [text |-> "Error: " \o message, display |-> "block"]
                              ELSE @]
    /\ UNCHANGED others_widget

DisplaySuccess(message) ==
    /\ \E q \in QueryOneOutcomes :
        widget' = [widget EXCEPT
            !.error_message = "",
            !.is_loading = FALSE,
            !.current_status = "Ready",
            !.error_display = IF q = "found"
                              THEN [text |-> "", display |-> "none"]
                              ELSE @]
    /\ UNCHANGED others_widget

ShowLoading(message) ==
    /\ widget' = ShowLoadingState(widget, message)
    /\ UNCHANGED others_widget

SetStatus(status) ==
    /\ widget' = [widget EXCEPT !.current_status = status]
    /\ UNCHANGED others_widget


\* ------------------------------------------------------------ parse_ports_input
\* Text is a sequence of one-character strings.
MaxPort == 65535

MaxRangePorts == 5000

DigitChars == <<"0", "1", "2", "3", "4", "5", "6", "7", "8", "9">>

IsDigit(c) == \E d \in 1..10 : DigitChars[d] = c

DigitValue(c) == (CHOOSE d \in 1..10 : DigitChars[d] = c) - 1

\* the decimal text of a natural number
RECURSIVE StrOfNat(_)
StrOfNat(n) ==
    IF n < 10 THEN <<DigitChars[n + 1]>>
    ELSE StrOfNat(n \div 10) \o <<DigitChars[(n % 10) + 1]>>

\* the value of a run of decimal digits
RECURSIVE IntOfDigits(_)
IntOfDigits(s) ==
    IF s = <<>> THEN 0
    ELSE IntOfDigits(SubSeq(s, 1, Len(s) - 1)) * 10 + DigitValue(s[Len(s)])

AllDigits(s) == s # <<>> /\ \A k \in 1..Len(s) : IsDigit(s[k])

\* how many leading characters of s are digits / are spaces
RECURSIVE LeadingDigits(_)
LeadingDigits(s) ==
    IF s # <<>> /\ IsDigit(Head(s)) THEN 1 + LeadingDigits(Tail(s)) ELSE 0

RECURSIVE LeadingSpaces(_)
LeadingSpaces(s) ==
    IF s # <<>> /\ Head(s) = " " THEN 1 + LeadingSpaces(Tail(s)) ELSE 0

RECURSIVE TrailingSpaces(_)
TrailingSpaces(s) ==
    IF s # <<>> /\ s[Len(s)] = " "
    THEN 1 + TrailingSpaces(SubSeq(s, 1, Len(s) - 1)) ELSE 0

Drop(s, n) == SubSeq(s, n + 1, Len(s))

\* str.strip()
Strip(s) ==
    LET t == Drop(s, LeadingSpaces(s))
    IN  SubSeq(t, 1, Len(t) - TrailingSpaces(t))

\* int(text): ValueError unless the stripped text is digits after an optional
\* minus sign
IntRaises(s) ==
    LET t == Strip(s)
    IN  ~(AllDigits(t) \/ (t # <<>> /\ Head(t) = "-" /\ AllDigits(Tail(t))))

IntValue(s) ==
    LET t == Strip(s)
    IN  IF Head(t) = "-" THEN 0 - IntOfDigits(Tail(t)) ELSE IntOfDigits(t)

\* str.split(",")
RECURSIVE SplitComma(_)
SplitComma(s) ==
    IF \E k \in 1..Len(s) : s[k] = ","
    THEN LET k == CHOOSE j \in 1..Len(s) : s[j] = "," /\ \A h \in 1..(j - 1) : s[h] # ","
         IN  <<SubSeq(s, 1, k - 1)>> \o SplitComma(Drop(s, k))
    ELSE <<s>>

\* re.match(r"^(\d+)\s*-\s*(\d+)$", text): the two groups, or no match
RangeGroups(s) ==
    LET d1 == LeadingDigits(s)
        r1 == Drop(s, d1)
        r2 == Drop(r1, LeadingSpaces(r1))
        r3 == IF r2 # <<>> THEN Tail(r2) ELSE <<>>
        r4 == Drop(r3, LeadingSpaces(r3))
    IN  IF d1 > 0 /\ r2 # <<>> /\ Head(r2) = "-" /\ AllDigits(r4)
        THEN Some(<<SubSeq(s, 1, d1), r4>>)
        ELSE Unset

ValidPort(port) == 1 <= port /\ port <= MaxPort

\* sorted(list(set(ports)))
RECURSIVE SortedSet(_)
SortedSet(S) ==
    IF S = {} THEN <<>>
    ELSE LET m == CHOOSE x \in S : \A y \in S : x <= y
         IN  <<m>> \o SortedSet(S \ {m})

\* list(range(start, end + 1))
RangeList(start, end) == [k \in 1..(end - start + 1) |-> start + k - 1]

\* return a list
Returns(ports) == [ret |-> Some(ports), raised |-> FALSE, error |-> ""]

\* self.display_error(message); return None.  display_error assigns
\* error_message and then looks up "#error-display" with query_one, which
\* raises when the widget tree has no such node: the exception leaves
\* parse_ports_input, no except clause there catching it.
Fails(message, q) == [ret |-> Unset, raised |-> q = "raises", error |-> message]

\* if port_count > 5000
RangeTooLarge(port_count) == port_count > MaxRangePorts

ParseSingle(text, q) ==
    IF IntRaises(text) THEN Fails("Invalid port number", q)
    ELSE IF ValidPort(IntValue(text)) THEN Returns(<<IntValue(text)>>)
    ELSE Fails("Port must be between 1 and 65535", q)

ParseMultiple(text, q) ==
    LET parts == SplitComma(text)
        bad(k) == IntRaises(parts[k]) \/ ~ValidPort(IntValue(parts[k]))
    IN  IF \E k \in 1..Len(parts) : bad(k)
        THEN LET k == CHOOSE j \in 1..Len(parts) : bad(j) /\ \A h \in 1..(j - 1) : ~bad(h)
             IN  IF IntRaises(parts[k]) THEN Fails("Invalid port format", q)
                 ELSE Fails("Port is invalid (must be 1-65535)", q)
        ELSE Returns(SortedSet({IntValue(parts[k]) : k \in 1..Len(parts)}))

ParseRange(text, q) ==
    LET match == RangeGroups(text)
    IN  IF match = Unset THEN Fails("Invalid range format", q)
        ELSE LET a == IntOfDigits(match[1][1])
                 b == IntOfDigits(match[1][2])
                 start == IF a > b THEN b ELSE a
                 end == IF a > b THEN a ELSE b
             IN  IF ~(ValidPort(a) /\ ValidPort(b))
                 THEN Fails("Ports must be between 1 and 65535", q)
                 ELSE IF RangeTooLarge(end - start + 1)
                 THEN Fails("Range too large", q)
                 ELSE Returns(RangeList(start, end))

\* parse_ports_input(port_input, mode)
ParsePortsInput(port_input, mode, q) ==
    LET text == Strip(port_input)
    IN  IF mode = "single" THEN ParseSingle(text, q)
        ELSE IF mode = "multiple" THEN ParseMultiple(text, q)
        ELSE IF mode = "range" THEN ParseRange(text, q)
        ELSE [ret |-> Unset, raised |-> FALSE, error |-> ""]

ScanModes == {"common", "single", "multiple", "range"}

NoParse ==
    [pc |-> "none", port_input |-> <<>>, mode |-> "", q |-> "found",
     result |-> [ret |-> Unset, raised |-> FALSE, error |-> ""]]

\* The endpoints tried: around 1, around the 5000-port limit and around 65535.
RangeEnds == {0, 1, 2, 80, 5000, 5001, 5002, 65535, 65536}

RangeText(a, b) == StrOfNat(a) \o <<"-">> \o StrOfNat(b)

PortTexts ==
    {RangeText(a, b) : a, b \in RangeEnds}
        \cup {<<"8", "0", " ", "-", " ", "8", "5">>, <<"8", "0", ":", "8", "5">>,
              <<"8", "0">>, <<"-", "5">>, <<"a", "b", "c">>, <<>>,
              <<"8", "0", ",", " ", "4", "4", "3", ",", "8", "0", ",", "2", "2">>,
              <<"8", "0", ",", "a", ",", "4", "4", "3">>,
              <<"8", "0", ",", "9", "9", "9", "9", "9">>}

\* One call of parse_ports_input.
ParseCall ==
    /\ parse.pc = "called"
    /\ parse' = [parse EXCEPT
                    !.pc = "done",
                    !.result = ParsePortsInput(parse.port_input, parse.mode, parse.q)]
    /\ UNCHANGED others_parse

\* ------------------------------------------------------------ PortScannerWidget.scan_ports
\* scan_ports runs on the UI thread from on_button_pressed: a call is either
\* over at once (rejected, invalid input, raised) or is inside
\* check_multiple_ports (pc = "scanning") until it completes.  last is what the
\* latest call saw and did.
NewScanner ==
    [scan_in_progress |-> FALSE, pc |-> "idle", is_loading |-> FALSE,
     error_message |-> "", current_status |-> "Ready", ports_to_scan |-> <<>>,
     last |-> [flag_at_call |-> FALSE, host |-> "", scan_mode |-> "",
               outcome |-> "none"]]

\* list(COMMON_SERVICE_PORTS.keys())
CommonPorts ==
    <<20, 21, 22, 23, 25, 53, 80, 110, 143, 161, 179, 389, 443, 445, 465, 587,
      636, 993, 995, 1433, 3306, 3389, 5432, 5900, 6379, 8080, 8443, 27017, 50000>>

\* What the user typed into #host-input, #port-input and #timeout-input.
ScanHosts == {"", "localhost"}

ScanPortTexts ==
    {<<>>, <<"8", "0">>, <<"8", "0", "-", "8", "2">>, <<"0", "-", "5">>,
     <<"8", "0", ",", "2", "2">>}

TimeoutTexts == {<<"3">>, <<"0">>, <<"3", "1">>, <<"a">>}

ScanInputs ==
    [host : ScanHosts, scan_mode : ScanModes, port_str : ScanPortTexts,
     timeout : TimeoutTexts]

\* A variant of the guard at the head of scan_ports that never rejects.
AlreadyScanningNever(s) == FALSE

\* if self.scan_in_progress
AlreadyScanning(s) == s.scan_in_progress

\* display_error(message): the attributes are assigned before query_one.
DisplayErrorState(s, message) ==
    [s EXCEPT !.error_message = message, !.is_loading = FALSE,
              !.current_status = "Error"]

\* except Exception as e: display_error, set_status, scan_in_progress = False;
\* when display_error's own query_one raises, the two last statements are not
\* reached and the exception leaves scan_ports.
ExceptHandler(s, q) ==
    IF q = "raises"
    THEN [DisplayErrorState(s, "Scan error") EXCEPT
            !.pc = "idle", !.last.outcome = "raised"]
    ELSE [DisplayErrorState(s, "Scan error") EXCEPT
            !.current_status = "Error: ", !.scan_in_progress = FALSE,
            !.pc = "idle", !.last.outcome = "failed"]

\* The first message the validation of the inputs ends on, "" when it ends on
\* none.
ValidationError(in, q) ==
    IF in.host = "" THEN "Please enter a target host"
    ELSE IF IntRaises(in.timeout) THEN "Invalid timeout value"
    ELSE IF IntValue(in.timeout) < 1 \/ IntValue(in.timeout) > 30
         THEN "Timeout must be between 1 and 30 seconds"
    ELSE IF in.scan_mode = "common" THEN ""
    ELSE IF Strip(in.port_str) = <<>> THEN "Please specify ports"
    ELSE ParsePortsInput(Strip(in.port_str), in.scan_mode, q).error

\* ports_to_scan of valid inputs
PortsToScan(in, q) ==
    IF in.scan_mode = "common" THEN CommonPorts
    ELSE ParsePortsInput(Strip(in.port_str), in.scan_mode, q).ret[1]

\* A call while the flag is set: display_error("Scan already in progress") and
\* return (or leave by the exception of query_one).
ScanRejected(in) ==
    /\ scanner.pc = "idle"
    /\ AlreadyScanning(scanner)
    /\ scanner' = [DisplayErrorState(scanner, "Scan already in progress") EXCEPT
                    !.last = [flag_at_call |-> scanner.scan_in_progress,
                              host |-> in.host, scan_mode |-> in.scan_mode,
                              outcome |-> "rejected"]]
    /\ UNCHANGED others_scanner

\* A call that ends before the scan: a lookup of an input raises, or the
\* validation ends on a message (display_error and return; its exception, when
\* query_one raises, is caught by scan_ports' except clause).
ScanInvalid(in) ==
    /\ scanner.pc = "idle"
    /\ ~AlreadyScanning(scanner)
    /\ \E lookup \in QueryOneOutcomes, q \in QueryOneOutcomes :
        /\ lookup = "raises" \/ ValidationError(in, q) # ""
        /\ LET s == [scanner EXCEPT !.last = [flag_at_call |-> scanner.scan_in_progress,
                                              host |-> in.host, scan_mode |-> in.scan_mode,
                              outcome |-> "invalid"]]
               message == ValidationError(in, q)
           IN  scanner' =
                IF lookup = "raises" THEN ExceptHandler(s, q)
                ELSE IF q = "raises" THEN ExceptHandler(DisplayErrorState(s, message), q)
                ELSE IF in.host = ""
                     THEN [DisplayErrorState(s, message) EXCEPT
                            !.current_status = "Error: No host specified"]
                     ELSE DisplayErrorState(s, message)
    /\ UNCHANGED others_scanner

\* A call with valid inputs: show_loading, set_status, scan_in_progress = True,
\* and into check_multiple_ports.
ScanBegin(in) ==
    /\ scanner.pc = "idle"
    /\ ~AlreadyScanning(scanner)
    /\ \E q \in QueryOneOutcomes :
        /\ ValidationError(in, q) = ""
        /\ scanner' = [scanner EXCEPT
                        !.is_loading = TRUE, !.error_message = "",
                        !.current_status = "Scanning",
                        !.scan_in_progress = TRUE,
                        !.pc = "scanning",
                        !.ports_to_scan = PortsToScan(in, q),
                        !.last = [flag_at_call |-> scanner.scan_in_progress,
                                  host |-> in.host, scan_mode |-> in.scan_mode,
                              outcome |-> "started"]]
    /\ UNCHANGED others_scanner

\* check_multiple_ports returns (results or none) or raises; the results are
\* displayed and the flag is cleared, unless display raises on the way.
ScanComplete ==
    /\ scanner.pc = "scanning"
    /\ \E scan \in {"results", "empty", "raises"}, q \in QueryOneOutcomes :
        scanner' =
            IF scan = "raises" THEN ExceptHandler(scanner, q)
            ELSE IF q = "raises"
                 THEN ExceptHandler(
                        IF scan = "results"
                        THEN [scanner EXCEPT !.error_message = "", !.is_loading = FALSE,
                                             !.current_status = "Ready"]
                        ELSE DisplayErrorState(scanner, "No results from scan"), q)
            ELSE IF scan = "results"
                 THEN [scanner EXCEPT !.error_message = "", !.is_loading = FALSE,
                                      !.current_status = "Scanned",
                                      !.scan_in_progress = FALSE, !.pc = "idle",
                                      !.last.outcome = "finished"]
                 ELSE [DisplayErrorState(scanner, "No results from scan") EXCEPT
                                      !.current_status = "Scan failed",
                                      !.scan_in_progress = FALSE, !.pc = "idle",
                                      !.last.outcome = "finished"]
    /\ UNCHANGED others_scanner

\* ------------------------------------------------------------ check_multiple_ports
\* One call: the requested ports, one future per list position (pending, or
\* done by returning a status or by raising), the positions as_completed has
\* yielded so far, in that order, and the results list.
MaxPorts == 3

RequestedPorts == {22, 80, 443}

PortLists == UNION {[1..n -> RequestedPorts] : n \in 0..MaxPorts}

NoPortCheck ==
    [pc |-> "none", ports |-> <<>>, futures |-> <<>>, yielded |-> <<>>,
     results |-> <<>>]

\* futures = {executor.submit(check_port_wrapper, port): port for port in ports}
SubmitAll(ports) ==
    [NoPortCheck EXCEPT !.pc = "collecting", !.ports = ports,
                        !.futures = [k \in 1..Len(ports) |-> "pending"]]

\* A variant that returns the results in the order collected.
Unsorted(results) == results

\* results.sort(key=lambda r: r.port): ascending by port, equal ports keeping
\* their order
RECURSIVE SortByPort(_)
SortByPort(results) ==
    IF results = <<>> THEN <<>>
    ELSE LET k == CHOOSE j \in 1..Len(results) :
                    /\ \A h \in 1..Len(results) : results[j].port <= results[h].port
                    /\ \A h \in 1..(j - 1) : results[h].port # results[j].port
         IN  <<results[k]>> \o
             SortByPort(SubSeq(results, 1, k - 1) \o SubSeq(results, k + 1, Len(results)))

\* A worker thread finishes check_port_wrapper(port): it returns a
\* PortCheckResult of some status, or raises.
FutureCompletes(k) ==
    /\ portcheck.pc = "collecting"
    /\ k \in 1..Len(portcheck.futures)
    /\ portcheck.futures[k] = "pending"
    /\ \E outcome \in {"open", "closed", "raises"} :
        portcheck' = [portcheck EXCEPT !.futures[k] = outcome]
    /\ UNCHANGED others_portcheck

\* as_completed yields a finished future not yet yielded; its result, or an
\* ERROR result for its port when future.result raises, is appended.
CollectResult(k) ==
    /\ portcheck.pc = "collecting"
    /\ k \in 1..Len(portcheck.futures)
    /\ portcheck.futures[k] # "pending"
    /\ \A h \in 1..Len(portcheck.yielded) : portcheck.yielded[h] # k
    /\ portcheck' =
        [portcheck EXCEPT
            !.yielded = Append(@, k),
            !.results = Append(@,
                [port |-> portcheck.ports[k],
                 status |-> IF portcheck.futures[k] = "raises" THEN "error"
                            ELSE portcheck.futures[k]])]
    /\ UNCHANGED others_portcheck

\* as_completed is exhausted: sort and return.
SortAndReturn ==
    /\ portcheck.pc = "collecting"
    /\ Len(portcheck.yielded) = Len(portcheck.futures)
    /\ portcheck' = [portcheck EXCEPT !.pc = "returned",
                                      !.results = SortByPort(@)]
    /\ UNCHANGED others_portcheck

\* ------------------------------------------------------------ DNS lookups and the default socket timeout
\* socket.getdefaulttimeout() is process-wide: None (Unset) or Some(seconds).
\* Each worker is one resolve_hostname call, or one check_with_resolver of
\* check_dns_propagation: it saves the default, sets its own timeout, looks up,
\* and restores what it saved in its finally clause.  before is the default
\* when the calls began.
NumResolvers == 2

Resolvers == 1..NumResolvers

LookupTimeouts == {3, 5}

NewResolver == [pc |-> "called", timeout |-> 5, old_timeout |-> Unset]

NoDns ==
    [default |-> Unset, before |-> Unset,
     workers |-> [w \in Resolvers |-> [NewResolver EXCEPT !.pc = "none"]]]

\* socket.setdefaulttimeout(old_timeout)
Restored(d, w) == d.workers[w].old_timeout

\* old_timeout = socket.getdefaulttimeout()
DnsSaveDefault(w) ==
    /\ dns.workers[w].pc = "called"
    /\ dns' = [dns EXCEPT !.workers[w].old_timeout = dns.default,
                          !.workers[w].pc = "saved"]
    /\ UNCHANGED others_dns

\* socket.setdefaulttimeout(timeout)
DnsSetDefault(w) ==
    /\ dns.workers[w].pc = "saved"
    /\ dns' = [dns EXCEPT !.default = Some(dns.workers[w].timeout),
                          !.workers[w].pc = "lookup"]
    /\ UNCHANGED others_dns

\* The lookup returns or raises (gaierror, timeout, anything else); every way
\* out passes through the finally clause.
DnsLookup(w) ==
    /\ dns.workers[w].pc = "lookup"
    /\ dns' = [dns EXCEPT !.workers[w].pc = "finally"]
    /\ UNCHANGED others_dns

DnsRestoreDefault(w) ==
    /\ dns.workers[w].pc = "finally"
    /\ dns' = [dns EXCEPT !.default = Restored(dns, w),
                          !.workers[w].pc = "done"]
    /\ UNCHANGED others_dns

\* ------------------------------------------------------------ terminal UI: LLDPTool
\* The LLDP tool of the terminal UI: its buttons and status label, scan_active,
\* and the @work(thread=True) worker start_lldp_worker, which calls
\* start_discovery_capture as caller TuiWorker.  The worker is "spawned",
\* "capturing" (inside start_discovery_capture), "posting" (blocked in
\* call_from_thread(self.scan_finished)) or absent.  The lines its callback
\* writes to the log are not kept.
TuiWorker == 1

NewTui ==
    [scan_active |-> FALSE, start_disabled |-> FALSE, stop_disabled |-> TRUE,
     status |-> "", worker |-> "none"]

\* action_start_scan, on the UI thread: buttons, status, log, and the worker
\* is spawned.
TuiActionStartScan ==
    /\ Returning = {}
    /\ ~tui.start_disabled
    /\ tui.worker = "none"
    /\ tui' = [tui EXCEPT !.start_disabled = TRUE, !.stop_disabled = FALSE,
                          !.status = "Listening for packets...",
                          !.worker = "spawned"]
    /\ UNCHANGED others_tui

\* The worker begins: self.scan_active = True, and it enters
\* net_tool.start_discovery_capture(write_to_log, timeout=60).
TuiWorkerBegin ==
    /\ Returning = {}
    /\ tui.worker = "spawned"
    /\ callers[TuiWorker].pc = "idle"
    /\ tui' = [tui EXCEPT !.scan_active = TRUE, !.worker = "capturing"]
    /\ callers' = [callers EXCEPT ![TuiWorker].pc = "check"]
    /\ UNCHANGED <<stop_discovery, discovery_thread, threads, is_root, stop_signaled>>
    /\ UNCHANGED <<ping_vars, lldp, peers_tui>>

\* start_discovery_capture has returned: if self.scan_active, the worker hands
\* scan_finished to the UI thread and waits for it; otherwise it ends.
TuiWorkerCheckActive ==
    /\ Returning = {}
    /\ tui.worker = "capturing"
    /\ callers[TuiWorker].pc = "idle"
    /\ tui' = [tui EXCEPT !.worker = IF tui.scan_active THEN "posting" ELSE "none"]
    /\ UNCHANGED others_tui

\* scan_finished, on the UI thread
TuiScanFinished ==
    /\ Returning = {}
    /\ tui.worker = "posting"
    /\ tui' = [tui EXCEPT !.start_disabled = FALSE, !.stop_disabled = TRUE,
                          !.status = "Scan Complete.", !.worker = "none"]
    /\ UNCHANGED others_tui

\* action_stop_scan, on the UI thread: scan_active = False,
\* net_tool.stop_discovery_capture(), status and buttons.
TuiActionStopScan ==
    /\ Returning = {}
    /\ ~tui.stop_disabled
    /\ tui' = [tui EXCEPT !.scan_active = FALSE, !.status = "Stopped.",
                          !.start_disabled = FALSE, !.stop_disabled = TRUE]
    /\ stop_discovery' = TRUE
    /\ UNCHANGED <<discovery_thread, callers, threads, is_root, stop_signaled>>
    /\ UNCHANGED <<ping_vars, lldp, peers_tui>>

\* ------------------------------------------------------------ rest states
\* A run exercises one part of the program; of the other parts nothing has
\* been constructed or called (None), and the toolkit is as constructed.
ToolkitIdle ==
    /\ stop_discovery = FALSE
    /\ discovery_thread = None
    /\ callers = [c \in Callers |-> NewCaller]
    /\ threads = [t \in ThreadIds |-> NoThread]
    /\ is_root = TRUE
    /\ stop_signaled = {}
    /\ stop_ping_event = FALSE
    /\ ping_threads = [p \in PingIds |-> NoPing]
    /\ ping_buttons = [start |-> "normal", stop |-> "disabled"]
    /\ ping_signaled = {}
    /\ lldp = NoFrame

UtilIdle ==
    /\ cdp = Unset
    /\ retry = Unset
    /\ cache = Unset
    /\ widget = Unset
    /\ scanner = Unset
    /\ parse = Unset
    /\ portcheck = Unset
    /\ dns = Unset
    /\ tui = Unset

OthersIdle_cdp ==
    /\ ToolkitIdle
    /\ retry = Unset
    /\ cache = Unset
    /\ widget = Unset
    /\ scanner = Unset
    /\ parse = Unset
    /\ portcheck = Unset
    /\ dns = Unset
    /\ tui = Unset

OthersIdle_retry ==
    /\ ToolkitIdle
    /\ cdp = Unset
    /\ cache = Unset
    /\ widget = Unset
    /\ scanner = Unset
    /\ parse = Unset
    /\ portcheck = Unset
    /\ dns = Unset
    /\ tui = Unset

OthersIdle_cache ==
    /\ ToolkitIdle
    /\ cdp = Unset
    /\ retry = Unset
    /\ widget = Unset
    /\ scanner = Unset
    /\ parse = Unset
    /\ portcheck = Unset
    /\ dns = Unset
    /\ tui = Unset

OthersIdle_widget ==
    /\ ToolkitIdle
    /\ cdp = Unset
    /\ retry = Unset
    /\ cache = Unset
    /\ scanner = Unset
    /\ parse = Unset
    /\ portcheck = Unset
    /\ dns = Unset
    /\ tui = Unset

OthersIdle_scanner ==
    /\ ToolkitIdle
    /\ cdp = Unset
    /\ retry = Unset
    /\ cache = Unset
    /\ widget = Unset
    /\ parse = Unset
    /\ portcheck = Unset
    /\ dns = Unset
    /\ tui = Unset

OthersIdle_parse ==
    /\ ToolkitIdle
    /\ cdp = Unset
    /\ retry = Unset
    /\ cache = Unset
    /\ widget = Unset
    /\ scanner = Unset
    /\ portcheck = Unset
    /\ dns = Unset
    /\ tui = Unset

OthersIdle_portcheck ==
    /\ ToolkitIdle
    /\ cdp = Unset
    /\ retry = Unset
    /\ cache = Unset
    /\ widget = Unset
    /\ scanner = Unset
    /\ parse = Unset
    /\ dns = Unset
    /\ tui = Unset

OthersIdle_dns ==
    /\ ToolkitIdle
    /\ cdp = Unset
    /\ retry = Unset
    /\ cache = Unset
    /\ widget = Unset
    /\ scanner = Unset
    /\ parse = Unset
    /\ portcheck = Unset
    /\ tui = Unset

OthersIdle_tui ==
    /\ ToolkitIdle
    /\ cdp = Unset
    /\ retry = Unset
    /\ cache = Unset
    /\ widget = Unset
    /\ scanner = Unset
    /\ parse = Unset
    /\ portcheck = Unset
    /\ dns = Unset

\* ------------------------------------------------------------ specifications
CaptureInit ==
    /\ stop_discovery = FALSE
    /\ discovery_thread = None
    /\ callers = [c \in Callers |-> NewCaller]
    /\ threads = [t \in ThreadIds |-> NoThread]
    /\ is_root \in BOOLEAN
    /\ stop_signaled = {}

PingInit ==
    /\ stop_ping_event = FALSE
    /\ ping_threads = [p \in PingIds |-> NoPing]
    /\ ping_buttons = [start |-> "normal", stop |-> "disabled"]
    /\ ping_signaled = {}

Init == CaptureInit /\ PingInit /\ lldp = NoFrame /\ UtilIdle

CaptureNext ==
    \/ \E c \in Callers : CallStart(c)
    \/ \E c \in Callers : CheckRunning(c)
    \/ \E c \in Callers : ReturnRejected(c)
    \/ \E c \in Callers : ResetStop(c)
    \/ \E c \in Callers : CreateThread(c)
    \/ \E c \in Callers : LaunchThread(c)
    \/ StopDiscoveryCapture
    \/ \E t \in ThreadIds : CheckPrivilege(t)
    \/ \E t \in ThreadIds, f \in FrameKinds : DeliverFrame(t, f)
    \/ \E t \in ThreadIds : SniffTimeout(t)
    \/ \E t \in ThreadIds : SniffRaises(t)
    \/ \E t \in ThreadIds : Finally(t)
    \/ \E t \in ThreadIds : ThreadReturn(t)

CaptureSpec == Init /\ [][CaptureNext]_vars

\* The same program with stop_discovery_capture's history recorded.
CaptureHistoryNext ==
    \/ \E c \in Callers : CallStart(c)
    \/ \E c \in Callers : CheckRunning(c)
    \/ \E c \in Callers : ReturnRejected(c)
    \/ \E c \in Callers : ResetStop(c)
    \/ \E c \in Callers : CreateThread(c)
    \/ \E c \in Callers : LaunchThread(c)
    \/ StopDiscoveryCaptureRecorded
    \/ \E t \in ThreadIds : CheckPrivilege(t)
    \/ \E t \in ThreadIds, f \in FrameKinds : DeliverFrame(t, f)
    \/ \E t \in ThreadIds : SniffTimeout(t)
    \/ \E t \in ThreadIds : SniffRaises(t)
    \/ \E t \in ThreadIds : Finally(t)
    \/ \E t \in ThreadIds : ThreadReturn(t)

CaptureHistorySpec == Init /\ [][CaptureHistoryNext]_vars

PingNext ==
    \/ \E host \in Hosts : StartPing(host)
    \/ StopPing
    \/ \E p \in PingIds : PingClear(p)
    \/ \E p \in PingIds, outcome \in PopenOutcomes : PingPopen(p, outcome)
    \/ \E p \in PingIds, eof \in BOOLEAN : PingReadline(p, eof)
    \/ \E p \in PingIds : PingCheck(p)
    \/ \E p \in PingIds : PingReturn(p)

PingSpec == Init /\ [][PingNext]_vars

\* The LLDP branch of _packet_callback run on every payload of TLVLists, whole
\* or cut short.
DecodeInit ==
    /\ CaptureInit
    /\ is_root
    /\ PingInit
    /\ lldp \in {[tlvs |-> tl, cut |-> c, s |-> StartWalk(Payload(tl, c))] :
                   tl \in TLVLists, c \in 0..MaxCut}
    /\ UtilIdle

DecodeNext ==
    \/ StepWalk
    \/ FinishWalk

DecodeSpec == DecodeInit /\ [][DecodeNext]_vars

\* The desktop application with both tools in use: its one UI thread (caller 1)
\* starts and stops discovery capture and ping, and the workers of both run.
UIThread == 1

\* The application was launched with capture privileges (sudo), as its
\* permission message asks.
DesktopInit == Init /\ is_root

DesktopNext ==
    \/ CallStart(UIThread)
    \/ CheckRunning(UIThread)
    \/ ReturnRejected(UIThread)
    \/ ResetStop(UIThread)
    \/ CreateThread(UIThread)
    \/ LaunchThread(UIThread)
    \/ StopDiscoveryCapture
    \/ \E t \in ThreadIds : CheckPrivilege(t)
    \/ \E t \in ThreadIds, f \in FrameKinds : DeliverFrame(t, f)
    \/ \E t \in ThreadIds : SniffTimeout(t)
    \/ \E t \in ThreadIds : SniffRaises(t)
    \/ \E t \in ThreadIds : Finally(t)
    \/ \E t \in ThreadIds : ThreadReturn(t)
    \/ \E host \in Hosts : StartPing(host)
    \/ StopPingUnrecorded
    \/ \E p \in PingIds : PingClear(p)
    \/ \E p \in PingIds, outcome \in PopenOutcomes : PingPopen(p, outcome)
    \/ \E p \in PingIds, eof \in BOOLEAN : PingReadline(p, eof)
    \/ \E p \in PingIds : PingCheck(p)
    \/ \E p \in PingIds : PingReturn(p)

DesktopSpec == DesktopInit /\ [][DesktopNext]_vars

CdpInit ==
    /\ OthersIdle_cdp
    /\ cdp \in {[NoCdp EXCEPT !.pc = "captured", !.frame = f, !.absent = a] :
                f \in CdpFrames, a \in AbsentOutcomes}

CdpNext == CdpCallback

CdpSpec == CdpInit /\ [][CdpNext]_vars

RetryInit ==
    /\ OthersIdle_retry
    /\ retry \in {EnterWrapper(n, d, b, e) :
                    n \in 0..MaxAttempts, d \in {0, 1}, b \in {1, 2},
                    e \in {{"ValueError"}, {"TypeError"}, ExcTypes}}

RetryNext ==
    \/ RetryReturns
    \/ RetryCaught
    \/ RetryPropagates
    \/ RetryExhausted

RetrySpec == RetryInit /\ [][RetryNext]_vars

CacheInit == OthersIdle_cache /\ cache = NewCache

CacheNext ==
    \/ \E enabled \in BOOLEAN : EnableCache(enabled)
    \/ \E key \in CacheKeys : GetCached(key)
    \/ \E key \in CacheKeys, result \in CacheValues : CacheResult(key, result)
    \/ \E key \in {Unset} \cup {Some(k) : k \in CacheKeys} : ClearCache(key)

CacheSpec == CacheInit /\ [][CacheNext]_vars

WidgetInit == OthersIdle_widget /\ widget = NewWidget

WidgetNext ==
    \/ \E message \in Messages : DisplayError(message)
    \/ \E message \in Messages : DisplaySuccess(message)
    \/ \E message \in Statuses : ShowLoading(message)
    \/ \E status \in Statuses : SetStatus(status)

WidgetSpec == WidgetInit /\ [][WidgetNext]_vars

ScannerInit == OthersIdle_scanner /\ scanner = NewScanner

ScannerNext ==
    \/ \E in \in ScanInputs : ScanRejected(in)
    \/ \E in \in ScanInputs : ScanInvalid(in)
    \/ \E in \in ScanInputs : ScanBegin(in)
    \/ ScanComplete

ScannerSpec == ScannerInit /\ [][ScannerNext]_vars

ParseInit ==
    /\ OthersIdle_parse
    /\ parse \in {[NoParse EXCEPT !.pc = "called", !.port_input = t, !.mode = m, !.q = q] :
                    t \in PortTexts, m \in ScanModes \ {"common"}, q \in QueryOneOutcomes}

ParseNext == ParseCall

ParseSpec == ParseInit /\ [][ParseNext]_vars

PortCheckInit ==
    /\ OthersIdle_portcheck
    /\ portcheck \in {SubmitAll(ports) : ports \in PortLists}

PortCheckNext ==
    \/ \E k \in 1..MaxPorts : FutureCompletes(k)
    \/ \E k \in 1..MaxPorts : CollectResult(k)
    \/ SortAndReturn

PortCheckSpec == PortCheckInit /\ [][PortCheckNext]_vars

DnsInit ==
    /\ OthersIdle_dns
    /\ dns \in {[NoDns EXCEPT !.default = b, !.before = b,
                              !.workers = [w \in Resolvers |->
                                            [NewResolver EXCEPT !.timeout = t[w]]]] :
                b \in {Unset, Some(10)}, t \in [Resolvers -> LookupTimeouts]}

DnsNext ==
    \/ \E w \in Resolvers : DnsSaveDefault(w)
    \/ \E w \in Resolvers : DnsSetDefault(w)
    \/ \E w \in Resolvers : DnsLookup(w)
    \/ \E w \in Resolvers : DnsRestoreDefault(w)

DnsSpec == DnsInit /\ [][DnsNext]_vars

\* The terminal UI's LLDP tool over the capture toolkit.
TuiInit == OthersIdle_tui /\ tui = NewTui

TuiNext ==
    \/ TuiActionStartScan
    \/ TuiWorkerBegin
    \/ CheckRunning(TuiWorker)
    \/ ReturnRejected(TuiWorker)
    \/ ResetStop(TuiWorker)
    \/ CreateThread(TuiWorker)
    \/ LaunchThread(TuiWorker)
    \/ TuiWorkerCheckActive
    \/ TuiScanFinished
    \/ TuiActionStopScan
    \/ \E t \in ThreadIds : CheckPrivilege(t)
    \/ \E t \in ThreadIds, f \in FrameKinds : DeliverFrame(t, f)
    \/ \E t \in ThreadIds : SniffTimeout(t)
    \/ \E t \in ThreadIds : SniffRaises(t)
    \/ \E t \in ThreadIds : Finally(t)
    \/ \E t \in ThreadIds : ThreadReturn(t)

TuiSpec == TuiInit /\ [][TuiNext]_vars

\* ------------------------------------------------------------ properties
\* Capture threads inside _run_discovery_capture (started, not yet returning).
Working == {t \in ThreadIds : threads[t].st \in {"priv", "sniff", "finally"}}

\* C1: however concurrent start_discovery_capture calls interleave, at no time
\* are two capture workers alive (one call starts a worker, the others are
\* rejected).
C1_SingleFlightStart == Cardinality(AliveThreads) <= 1

\* C2: once stop has been signalled to a ping or capture worker, the signal
\* that worker reads stays set until the worker exits.
C2_StopSignalMonotonic ==
    /\ \A p \in ping_signaled : p \in Pinging => stop_ping_event
    /\ \A t \in stop_signaled : t \in Working => stop_discovery

\* C3: whatever start-ping and stop-ping requests the application issues, at
\* most one continuous-ping worker is running its probe loop.
C3_OnePingWorker ==
    Cardinality({p \in PingIds : ping_threads[p].st \in {"read", "check"}}) <= 1

\* C4: a start_discovery_capture call that makes its already-running test while
\* a capture worker is alive is rejected, and the stop flag, the worker
\* reference and the workers are left as they were.
C4_StartRejectedWhileAlive ==
    [][\A c \in Callers :
          (callers[c].pc = "check" /\ callers'[c].pc # "check" /\ AliveThreads # {})
          => /\ callers'[c].pc = "rejected"
             /\ stop_discovery' = stop_discovery
             /\ discovery_thread' = discovery_thread
             /\ threads' = threads]_vars

\* A call's step that starts its worker thread.
Launches(c) ==
    /\ callers[c].pc = "launch"
    /\ callers'[c].pc = "idle"
    /\ threads[discovery_thread].st = "created"

\* A call's already-running test made while no capture worker is alive.
ChecksIdle(c) ==
    /\ callers[c].pc = "check"
    /\ callers'[c].pc # "check"
    /\ AliveThreads = {}

\* C5 as stated: with every capture worker exited, the next
\* start_discovery_capture is accepted and its worker begins with the stop
\* flag un-set.
C5_NextStartBeginsUnset ==
    [][\A c \in Callers :
          /\ ChecksIdle(c) => callers'[c].pc = "reset"
          /\ Launches(c) => ~stop_discovery']_vars

\* C5 as amended: with every capture worker exited, the next
\* start_discovery_capture is accepted and un-sets the stop flag before it
\* creates its worker, and from then until the worker is started only a call
\* of stop_discovery_capture sets the flag again.
C5_NextStartFresh ==
    [][/\ \A c \in Callers :
             /\ ChecksIdle(c) => callers'[c].pc = "reset"
             /\ (callers[c].pc = "reset" /\ callers'[c].pc = "create") => ~stop_discovery'
       /\ ((\E c \in Callers : callers[c].pc \in {"create", "launch"})
            /\ ~stop_discovery /\ stop_discovery')
           => StopDiscoveryCapture]_vars

\* The stored worker has exited and none is alive; the next start was
\* accepted and has un-set the flag, and is about to create its worker.
C5_Witness ==
    /\ discovery_thread # None
    /\ threads[discovery_thread].st = "none"
    /\ AliveThreads = {}
    /\ ~stop_discovery
    /\ \E c \in Callers : callers[c].pc = "create"

\* C6: once stop has been requested for a running capture session, its worker
\* hands no further frame to a decoder and emits no match.
C6_NoDecodeAfterStop ==
    [][\A t \in stop_signaled :
          /\ threads'[t].decoded <= threads[t].decoded
          /\ Count(threads'[t].out, "Match") <= Count(threads[t].out, "Match")]_vars

\* C7: a session the caller's stop ended never reports not-found, and a
\* session that timed out with no match and no stop request reports not-found
\* exactly once.
C7_StopIsNotNotFound ==
    \A t \in ThreadIds :
       /\ threads[t].endedBy = "stop" => Count(threads[t].out, "NotFound") = 0
       /\ (threads[t].st = "return" /\ threads[t].endedBy = "timeout" /\ ~stop_discovery)
          => Count(threads[t].out, "NotFound") = 1

\* C8: a frame on which decoding fails does not end the session: after the
\* failure is forwarded the session is still capturing.
C8_DecodeFailureNotFatal ==
    [][\A t \in ThreadIds :
          Count(threads'[t].out, "DecodeError") > Count(threads[t].out, "DecodeError")
          => threads'[t].st = "sniff"]_vars

\* C9: once a frame has yielded a neighbor identity the session has stopped
\* capturing: exactly one match event exists for it, and from then on no
\* further frame reaches a decoder.
C9_MatchEndsSession ==
    [][\A t \in ThreadIds :
          Count(threads'[t].out, "Match") >= 1
          => /\ Count(threads'[t].out, "Match") = 1
             /\ threads'[t].st \in {"finally", "return"}
             /\ Count(threads[t].out, "Match") >= 1
                => threads'[t].decoded = threads[t].decoded]_vars

\* A session that matched a frame and is returning with that one event.
C9_Witness ==
    \E t \in ThreadIds :
       /\ threads[t].st = "return"
       /\ threads[t].endedBy = "match"
       /\ threads[t].out = <<"Match">>

\* C10: when the capture call raises, the failure is the session's only
\* reported outcome.
C10_CaptureErrorOnly ==
    \A t \in ThreadIds :
       Count(threads[t].out, "CaptureError") >= 1 => threads[t].out = <<"CaptureError">>

\* C11: without capture privileges a worker never captures and never decodes;
\* all it ever reports is one permission-denied event, after which it returns,
\* and the step that reports it creates or starts no further worker.
C11_PermissionDeniedOnly ==
    [][~is_root =>
         \A t \in ThreadIds :
            /\ threads'[t].st \notin {"sniff", "finally"}
            /\ threads'[t].decoded = 0
            /\ threads'[t].out \in {<<>>, <<"PermissionDenied">>}
            /\ threads'[t].st = "return" <=> threads'[t].out = <<"PermissionDenied">>
            /\ threads[t].st = "priv" /\ threads'[t].st # "priv"
               => /\ threads'[t].st = "return"
                  /\ \A u \in ThreadIds \ {t} : threads'[u] = threads[u]
                  /\ callers' = callers]_vars

\* An unprivileged worker has reported permission-denied and is returning.
C11_Witness ==
    /\ ~is_root
    /\ \E t \in ThreadIds :
          /\ threads[t].st = "return"
          /\ threads[t].endedBy = "denied"
          /\ threads[t].out = <<"PermissionDenied">>

\* C12: a ping worker that stop_ping signalled while it was running delivers
\* no further line to the sink, and its next test of the stop event ends it.
C12_StopWithinOneProbe ==
    [][\A p \in ping_signaled :
          /\ Len(SinkLines(ping_threads'[p].sink)) <= Len(SinkLines(ping_threads[p].sink))
          /\ (ping_threads[p].st = "check" /\ ping_threads'[p].st # "check")
             => ping_threads'[p].st = "return"]_vars

\* C13: the lines a ping worker has handed to its callback are the lines its
\* process printed, each once and in order: all of them whenever the worker is
\* waiting for the next line, all but the one just read while it tests the
\* stop event, and nothing is delivered out of turn after that.
C13_LinesStreamedInOrder ==
    \A p \in PingIds :
       LET got == SinkLines(ping_threads[p].sink)
           n == ping_threads[p].nread
       IN /\ got = [i \in 1..Len(got) |-> i]
          /\ ping_threads[p].st = "read" => Len(got) = n
          /\ ping_threads[p].st = "check" => Len(got) = n - 1
          /\ Len(got) <= n

\* A worker has read two lines, delivered both in order and waits for a third.
C13_Witness ==
    \E p \in PingIds :
       /\ ping_threads[p].st = "read"
       /\ ping_threads[p].nread = 2
       /\ SinkLines(ping_threads[p].sink) = <<1, 2>>

\* C14: a step of the ping tool (its start, its stop, its worker) leaves the
\* discovery stop flag, worker reference, workers and start calls as they
\* were, and a step of discovery capture leaves the ping stop event, workers
\* and buttons as they were.
C14_PingAndCaptureDisjoint ==
    [][/\ <<stop_ping_event, ping_threads, ping_buttons>>' # <<stop_ping_event, ping_threads, ping_buttons>>
          => <<stop_discovery, discovery_thread, threads, callers>>' =
             <<stop_discovery, discovery_thread, threads, callers>>
       /\ <<stop_discovery, discovery_thread, threads, callers>>' # <<stop_discovery, discovery_thread, threads, callers>>
          => <<stop_ping_event, ping_threads, ping_buttons>>' =
             <<stop_ping_event, ping_threads, ping_buttons>>]_vars

\* Both tools are running at once and each has been asked to stop: a capture
\* worker is sniffing and a ping worker is in its loop, both stop signals set.
C14_Witness ==
    /\ \E t \in ThreadIds : threads[t].st = "sniff"
    /\ \E p \in PingIds : ping_threads[p].st = "check"
    /\ stop_discovery
    /\ stop_ping_event

\* Offsets of the payload built from tlvs at which a TLV ends.
Boundaries(tlvs) == {Len(EncodeTLVs(SubSeq(tlvs, 1, k))) : k \in 0..Len(tlvs)}

\* The frame being decoded ends inside a TLV: in its header or in its value.
TruncatedMidTLV == Len(lldp.s.raw_payload) \notin Boundaries(lldp.tlvs)

\* C15: decoding a payload that is truncated mid-TLV never yields a neighbor
\* identity (it is to end in a truncation error).
C15_TruncatedIsError ==
    (lldp.s.pc = "done" /\ TruncatedMidTLV) => lldp.s.result.kind # "Match"

FirstValue(tlvs, ty) ==
    tlvs[CHOOSE k \in 1..Len(tlvs) :
            /\ tlvs[k].type = ty
            /\ \A j \in 1..(k - 1) : tlvs[j].type # ty].value

\* Every Chassis ID TLV of the frame carries a non-empty ASCII id.
PlainChassisIds ==
    \A k \in 1..Len(lldp.tlvs) :
       lldp.tlvs[k].type = 1
       => /\ Tail(lldp.tlvs[k].value) # <<>>
          /\ Utf8Ignore(Tail(lldp.tlvs[k].value)) = Tail(lldp.tlvs[k].value)

\* C17: when a whole payload whose chassis ids are plain text yields an
\* identity, the chassis id it reports is the one of the first Chassis ID TLV
\* of the frame, however many follow.
C17_FirstDuplicateWins ==
    (lldp.s.pc = "done" /\ lldp.cut = 0 /\ PlainChassisIds /\ lldp.s.result.kind = "Match")
    => lldp.s.result.switch_id = Tail(FirstValue(lldp.tlvs, 1))

\* The frame is exactly a Chassis ID TLV, a Port ID TLV and an End TLV, whole,
\* the two ids non-empty.
ChassisPortEnd ==
    /\ lldp.cut = 0
    /\ Len(lldp.tlvs) = 3
    /\ lldp.tlvs[1].type = 1 /\ Len(lldp.tlvs[1].value) >= 2
    /\ lldp.tlvs[2].type = 2 /\ Len(lldp.tlvs[2].value) >= 2
    /\ lldp.tlvs[3].type = 0

\* The fields the result text carries, each with its value: the lines
\* "System Name:", "Switch ID:" (the chassis id), "Management Address:" and
\* "Port Description:"; the text has no line for the port id.
Reported(r) ==
    {<<"chassis_id", r.switch_id>>}
    \cup (IF r.system_name # Unset THEN {<<"system_name", r.system_name[1]>>} ELSE {})
    \cup (IF r.mgmt_address # Unset THEN {<<"mgmt_address", r.mgmt_address[1]>>} ELSE {})
    \cup (IF r.port_description # Unset THEN {<<"port_description", r.port_description[1]>>} ELSE {})

\* C18: a whole payload of a Chassis ID, a Port ID and an End TLV decodes to
\* an identity that carries the chassis id and the port id, both as sent, and
\* nothing else.
C18_ChassisPortEndDecodes ==
    (lldp.s.pc = "done" /\ ChassisPortEnd)
    => /\ lldp.s.result.kind = "Match"
       /\ Reported(lldp.s.result) = {<<"chassis_id", Tail(lldp.tlvs[1].value)>>,
                                     <<"port_id", Tail(lldp.tlvs[2].value)>>}

\* How many leading TLVs of the frame the payload holds whole.
WholeTLVs ==
    Cardinality({k \in 1..Len(lldp.tlvs) :
                    Len(EncodeTLVs(SubSeq(lldp.tlvs, 1, k))) <= Len(lldp.s.raw_payload)})

\* The TLVs of the frame that lie before the End marker, or before the end of
\* the buffer when no End marker precedes it.
BeforeEnd ==
    LET ends == {k \in 1..WholeTLVs : lldp.tlvs[k].type = 0}
        last == IF ends = {} THEN WholeTLVs
                ELSE (CHOOSE k \in ends : \A j \in ends : k <= j) - 1
    IN SubSeq(lldp.tlvs, 1, last)

HasType(tlvs, ty) == \E k \in 1..Len(tlvs) : tlvs[k].type = ty

\* A Management Address TLV of the IPv4 family with fewer than four octets.
ShortIPv4(tlv) ==
    tlv.type = 8 /\ Len(tlv.value) > 1 /\ tlv.value[2] = 1 /\ Len(tlv.value) < 6

\* C19 as stated: a payload with no Chassis ID TLV or no Port ID TLV before
\* the End marker (or the end of the buffer) yields no identity: decoding
\* fails with the missing-required-field error.
C19_MissingFieldError ==
    (lldp.s.pc = "done" /\ (~HasType(BeforeEnd, 1) \/ ~HasType(BeforeEnd, 2)))
    => /\ lldp.s.result.kind = "DecodeError"
       /\ lldp.s.result.err = "MissingField"

\* C19 as amended: such a payload yields no identity: decoding fails, with the
\* missing-required-field error unless an IPv4 Management Address TLV with
\* fewer than four octets lies before that point, which fails the decoding
\* with its address error.
C19_MissingFieldFails ==
    (lldp.s.pc = "done" /\ (~HasType(BeforeEnd, 1) \/ ~HasType(BeforeEnd, 2)))
    => /\ lldp.s.result.kind = "DecodeError"
       /\ \/ lldp.s.result.err = "MissingField"
          \/ /\ lldp.s.result.err = "BadAddress"
             /\ \E k \in 1..Len(BeforeEnd) : ShortIPv4(BeforeEnd[k])

\* A whole frame with a Chassis ID TLV and an End marker but no Port ID TLV
\* was decoded and failed on the missing field.
C19_Witness ==
    /\ lldp.s.pc = "done"
    /\ lldp.cut = 0
    /\ HasType(BeforeEnd, 1)
    /\ ~HasType(BeforeEnd, 2)
    /\ HasType(lldp.tlvs, 0)
    /\ lldp.s.result.kind = "DecodeError"
    /\ lldp.s.result.err = "MissingField"

\* A Management Address TLV whose second value byte is 1 (IPv4).
IPv4Family(tlv) == tlv.type = 8 /\ Len(tlv.value) > 1 /\ tlv.value[2] = 1

\* The frame without its Management Address TLVs of any other family.
WithoutOtherFamilies(tlvs) == SelectSeq(tlvs, LAMBDA t : t.type # 8 \/ IPv4Family(t))

\* C20: a decoded identity carries a management address only if an IPv4-family
\* type-8 TLV lies before the End marker, and then the address is the four
\* octets at value bytes 2..6 of such a TLV; with no such TLV the address is
\* absent; and a whole frame decodes to the same result with or without its
\* type-8 TLVs of other families.
C20_MgmtAddressIPv4Only ==
    lldp.s.pc = "done" =>
       /\ lldp.s.result.kind = "Match" =>
             IF \E k \in 1..Len(BeforeEnd) : IPv4Family(BeforeEnd[k])
             THEN \E k \in 1..Len(BeforeEnd) :
                     /\ IPv4Family(BeforeEnd[k])
                     /\ lldp.s.result.mgmt_address =
                           Some(InetNtoa(SubSeq(BeforeEnd[k].value, 3, 6)))
             ELSE lldp.s.result.mgmt_address = Unset
       /\ lldp.cut = 0 =>
             lldp.s.result = DecodeLLDP(Payload(WithoutOtherFamilies(lldp.tlvs), 0))

\* A frame with a Chassis ID, a Port ID and an IPv4 Management Address TLV was
\* decoded and reports the address 10.0.0.1.
C20_Witness ==
    /\ lldp.s.pc = "done"
    /\ lldp.s.result.kind = "Match"
    /\ \E k \in 1..Len(lldp.tlvs) : IPv4Family(lldp.tlvs[k])
    /\ lldp.s.result.mgmt_address = Some(InetNtoa(<<10, 0, 0, 1>>))


\* C21: a CDP frame carrying Device ID and Port ID decodes to a neighbor
\* identity whether or not Platform or Address is present, and a frame lacking
\* Device ID or Port ID fails with an error.
C21_RequiredFieldsDecide ==
    cdp.pc = "delivered" =>
        LET f == cdp.frame
            well == /\ f.device_id # Unset /\ ~DecodeRaises(f.device_id[1])
                    /\ f.port_id # Unset /\ ~DecodeRaises(f.port_id[1])
                    /\ f.platform # Unset => ~DecodeRaises(f.platform[1])
        IN  /\ well => cdp.result.tag = CdpFound
            /\ (f.device_id = Unset \/ f.port_id = Unset) => cdp.result.tag = CdpError


\* C22: a function wrapped by retry(max_attempts=n, exceptions=E) is invoked
\* until it first returns and at most n times; the wrapper returns the first
\* successful result with no further invocation, and when all n invocations
\* raise an exception in E it raises the exception of the last invocation.
C22_RetryUntilFirstReturn ==
    LET calls == Len(retry.log)
    IN  /\ calls <= retry.max_attempts
        /\ \A k \in 1..(calls - 1) : retry.log[k] \in retry.exceptions
        /\ (calls > 0 /\ retry.log[calls] = "returns") =>
                /\ retry.pc = "returned"
                /\ retry.result = [kind |-> "return", type |-> "", call |-> calls]
        /\ retry.pc = "returned" => retry.log[calls] = "returns"
        /\ (/\ retry.max_attempts >= 1
            /\ calls = retry.max_attempts
            /\ \A k \in 1..calls : retry.log[k] \in retry.exceptions) =>
                /\ retry.pc \in {"loop", "raised"}
                /\ retry.last_exception = Exc(retry.log[calls], calls)
                /\ retry.pc = "raised" =>
                    retry.result = [kind |-> "raise", type |-> retry.log[calls],
                                    call |-> calls]

C22_Witness ==
    /\ retry.pc = "raised"
    /\ retry.max_attempts >= 2
    /\ Len(retry.log) = retry.max_attempts
    /\ retry.result.call = retry.max_attempts
    /\ retry.log[1] # retry.log[2]

\* C23: an exception raised by the wrapped function that is not an instance of
\* the configured types propagates to the caller from the invocation that
\* raised it: that invocation is the last, nothing is slept after it, and when
\* it is the function's first failure it is the only invocation and nothing
\* was slept at all.
C23_OtherExceptionPropagates ==
    \A k \in 1..Len(retry.log) :
        (retry.log[k] \in ExcTypes /\ retry.log[k] \notin retry.exceptions) =>
            /\ k = Len(retry.log)
            /\ retry.pc = "raised"
            /\ retry.result = [kind |-> "raise", type |-> retry.log[k], call |-> k]
            /\ Len(retry.sleeps) = k - 1
            /\ retry.last_exception = NoException => (k = 1 /\ retry.sleeps = <<>>)

C23_Witness ==
    /\ retry.pc = "raised"
    /\ Len(retry.log) = 1
    /\ retry.log[1] \notin retry.exceptions
    /\ retry.max_attempts >= 2
    /\ retry.sleeps = <<>>


\* C24: get_cached(k) returns the value of the most recent cache_result(k, v)
\* made while caching was enabled and not since followed by clear_cache(k) or
\* clear_cache(), provided caching is enabled at the get, and None otherwise;
\* in particular clear_cache(k) leaves the entries of all other keys alone.
C24_GetReturnsLatestUncleared ==
    \A k \in CacheKeys :
        GetCachedValue(cache, k) = IF cache.enabled THEN cache.recorded[k] ELSE Unset

\* C30: whatever sequence of display_error, display_success, show_loading and
\* set_status calls was made, is_loading true implies error_message empty.
C30_LoadingHasNoError == widget.is_loading => widget.error_message = ""

C30_Witness ==
    /\ widget.is_loading
    /\ widget.error_display = [text |-> "Error: Timeout", display |-> "block"]
    /\ widget.error_message = ""


\* C25: at most one port scan is in progress per PortScannerWidget: a scan is
\* in progress only under the flag, and a scan_ports call made while
\* scan_in_progress is set reports "Scan already in progress", starts no scan
\* and leaves the flag set.
C25_OneScanPerWidget ==
    /\ scanner.pc = "scanning" => scanner.scan_in_progress
    /\ scanner.last.flag_at_call =>
        /\ scanner.last.outcome = "rejected"
        /\ scanner.pc = "idle"
        /\ scanner.scan_in_progress
        /\ scanner.error_message = "Scan already in progress"
    /\ scanner.last.outcome \in {"started", "finished"} => ~scanner.last.flag_at_call

C25_Witness ==
    /\ scanner.last.flag_at_call
    /\ scanner.last.outcome = "rejected"
    /\ scanner.scan_in_progress


\* C27: in range mode, for input 'a-b' with non-negative integers a and b,
\* parse_ports_input returns the ascending list of every port from min(a,b) to
\* max(a,b) when both endpoints lie in 1..65535 and the list has at most 5000
\* ports, and returns None in every other case.
C27_RangeParse ==
    \A a, b \in RangeEnds :
        (parse.pc = "done" /\ parse.mode = "range" /\ parse.port_input = RangeText(a, b)) =>
            LET lo == IF a < b THEN a ELSE b
                hi == IF a < b THEN b ELSE a
                r == parse.result
            IN  /\ ~r.raised
                /\ IF a \in 1..65535 /\ b \in 1..65535 /\ hi - lo + 1 <= 5000
                   THEN /\ r.ret # Unset
                        /\ Len(r.ret[1]) = hi - lo + 1
                        /\ \A k \in 1..Len(r.ret[1]) : r.ret[1][k] = lo + k - 1
                   ELSE r.ret = Unset


\* C26: check_multiple_ports returns exactly one result per requested port,
\* in ascending order of port number, whatever order the per-port checks
\* complete in and whether each returns or raises.
C26_OneResultPerPortAscending ==
    portcheck.pc = "returned" =>
        LET r == portcheck.results
            p == portcheck.ports
        IN  /\ Len(r) = Len(p)
            /\ \A k \in 1..(Len(r) - 1) : r[k].port <= r[k + 1].port
            /\ \A x \in RequestedPorts :
                Cardinality({k \in 1..Len(r) : r[k].port = x})
                    = Cardinality({k \in 1..Len(p) : p[k] = x})

C26_Witness ==
    /\ portcheck.pc = "returned"
    /\ Len(portcheck.ports) >= 3
    /\ portcheck.ports[1] > portcheck.ports[2]
    /\ portcheck.yielded[1] = 3
    /\ \E k \in 1..Len(portcheck.futures) : portcheck.futures[k] = "raises"


\* C28: once check_dns_propagation, or any set of concurrently running
\* resolve_hostname calls, has completed, the process-wide default socket
\* timeout is what it was before the calls began, for every interleaving.
C28_DefaultTimeoutRestored ==
    (\A w \in Resolvers : dns.workers[w].pc = "done") => dns.default = dns.before


\* C29: the terminal UI's LLDP tool shows the scan as complete (scan_finished:
\* status "Scan Complete.", Start enabled again) only after the capture worker
\* it started has exited, never while that capture is still running.
C29_CompleteOnlyAfterCaptureExit ==
    (tui.status = "Scan Complete." /\ ~tui.start_disabled) => AliveThreads = {}

====
